---- MODULE Spec2Model ----
(***************************************************************************)
(* Model of the dialogue pipeline (app/core/langgraph_orchestration.py),   *)
(* the memory store service (app/memory/service.py), the embedding         *)
(* service (app/services/embedding.py) and knowledge similarity retrieval  *)
(* (app/services/knowledge.py).                                            *)
(*                                                                         *)
(* Conventions.  A text is a sequence of tokens; the empty text and None   *)
(* are both <<>> (both are falsy in the Python conditions that read them). *)
(* A document id is a pair: <<"oid", n>> is the BSON ObjectId the store    *)
(* generates on insert, <<"str", n>> is its hex string str(ObjectId).  A   *)
(* store filter {"_id": x} matches a document only when the stored _id is  *)
(* equal to x, type included.                                              *)
(***************************************************************************)
EXTENDS Integers, Sequences, FiniteSets, TLC

VARIABLES
    memories,        \* collection character_memories, in insertion order
    embeddings,      \* collection memory_embeddings, in insertion order
    nextOid,         \* next ObjectId the store hands out
    lastOp,          \* the last service call: its arguments and what it returned
    chunks,          \* collection knowledge_chunks, in insertion order
    kres,            \* the last retrieve_similar call and its result
    pc,              \* the graph node about to run ("idle" before a request)
    state,           \* GraphState of the request being served
    run,             \* what happened during the current run (stages run, faults met)
    result,          \* response_data returned by generate_dialogue_response
    readers,         \* the concurrent get_memory requests: position and locals
    conversations,   \* collection conversations, in insertion order
    templates,       \* collection prompt_templates, in insertion order
    versions,        \* collection prompt_versions, in insertion order
    http,            \* the last request served by an endpoint and its outcome
    active_connections,   \* WebSocketManager.active_connections, in insertion order
    connection_metadata,  \* WebSocketManager.connection_metadata, in insertion order
    sockets,         \* the websocket_endpoint task of each socket: where it waits
    call,            \* the send_event / broadcast_event call in progress
    creating,        \* the POST /prompts/versions request in progress
    deleting,        \* the delete_template call in progress
    rag_evaluator,   \* the shared RAGEvaluator: its db and number of results
    clients,         \* the clients get_async_db made: how many, which are closed
    evaluating       \* the POST /evaluation/rag-metrics requests in progress

vars == <<memories, embeddings, nextOid, lastOp, chunks, kres, pc, state, run, result,
          readers, conversations, templates, versions, http,
          active_connections, connection_metadata, sockets, call,
          creating, deleting, rag_evaluator, clients, evaluating>>

memVars == <<memories, embeddings, nextOid, lastOp>>
knowVars == <<chunks, kres>>
pipeVars == <<pc, state, run, result>>
reqVars == <<conversations, templates, versions, http>>
wsVars == <<active_connections, connection_metadata, sockets, call>>
versionVars == <<creating, deleting>>
evalVars == <<rag_evaluator, clients, evaluating>>
procVars == <<wsVars, versionVars, evalVars>>
auxVars == <<readers, reqVars, procVars>>

(***************************************************************************)
(* Bounds of the model.                                                    *)
(***************************************************************************)
MaxMemories == 2
MaxAccess == 2

Characters == {"character_thor", "loki"}
Contents == {<<"hammer">>, <<"storm">>}
Queries == {<<"hammer">>, <<"asgard">>}
Importances == {5, 8}
CreateImportances == {5}
Limits == {1, 2}

None == <<>>

Min(a, b) == IF a < b THEN a ELSE b
Max(a, b) == IF a > b THEN a ELSE b

(***************************************************************************)
(* Document ids.                                                           *)
(***************************************************************************)
ObjectId(n) == <<"oid", n>>

\* str(result.inserted_id): the hex string of an ObjectId
Str(id) == <<"str", id[2]>>

\* The model's string <<"str", 0>> stands for a string that is not 24 hex digits.
IsValidHex(s) == s[1] = "str" /\ s[2] > 0

\* ObjectId(memory_id): parses the hex string (the caller checks IsValidHex first)
ParseObjectId(s) == <<"oid", s[2]>>

IdStrings == {<<"str", n>> : n \in 0..MaxMemories}

(***************************************************************************)
(* Embedding service.                                                      *)
(***************************************************************************)
ZeroVector == <<0, 0>>

VecAdd(u, v) == <<u[1] + v[1], u[2] + v[2]>>

\* self.model.encode: the sentence encoder, a fixed function of the text.
TokenVec(t) ==
    CASE t = "hammer" -> <<1, 0>>
      [] t = "storm"  -> <<1, 2>>
      [] t = "asgard" -> <<2, 1>>
      [] OTHER        -> <<0, 1>>

RECURSIVE Encode(_)
Encode(text) ==
    IF text = <<>> THEN ZeroVector
    ELSE VecAdd(TokenVec(Head(text)), Encode(Tail(text)))

\* get_embedding never raises: a failing model gives the zero vector.
get_embedding(text, modelOk) ==
    IF modelOk THEN Encode(text) ELSE ZeroVector

Dot(u, v) == u[1] * v[1] + u[2] * v[2]

\* cosine_similarity.  The score dot/(|u||v|) is kept exactly as the rational
\* num/den = dot^2 / (|u|^2 |v|^2); all vectors of the model have non-negative
\* components, so the square keeps the order of the scores.
cosine_similarity(u, v) ==
    IF Dot(u, u) = 0 \/ Dot(v, v) = 0
    THEN [num |-> 0, den |-> 1]
    ELSE [num |-> Dot(u, v) * Dot(u, v), den |-> Dot(u, u) * Dot(v, v)]

ScoreLess(a, b) == a.num * b.den < b.num * a.den
ScoreEq(a, b) == a.num * b.den = b.num * a.den

(***************************************************************************)
(* list.sort(key = score, reverse = True): a stable descending sort;       *)
(* elements of equal score keep their original order.                      *)
(***************************************************************************)
RECURSIVE InsertDesc(_, _)
InsertDesc(x, s) ==
    IF s = <<>> THEN <<x>>
    ELSE IF ScoreLess(Head(s).score, x.score) THEN <<x>> \o s
    ELSE <<Head(s)>> \o InsertDesc(x, Tail(s))

RECURSIVE SortDesc(_)
SortDesc(s) ==
    IF s = <<>> THEN <<>>
    ELSE InsertDesc(s[Len(s)], SortDesc(SubSeq(s, 1, Len(s) - 1)))

\* s[:k] of Python: the first k elements, or all but the last -k when k < 0
Slice(s, k) ==
    IF k >= 0 THEN SubSeq(s, 1, Min(k, Len(s)))
    ELSE SubSeq(s, 1, Max(Len(s) + k, 0))

IsSortedDesc(s) ==
    \A i \in 1..(Len(s) - 1) : ~ScoreLess(s[i].score, s[i + 1].score)

(***************************************************************************)
(* Sequence helpers.                                                       *)
(***************************************************************************)
\* index of the first document with d._id = id, 0 when there is none (find_one)
FindById(coll, id) ==
    IF \E i \in 1..Len(coll) : coll[i]._id = id
    THEN CHOOSE i \in 1..Len(coll) :
            /\ coll[i]._id = id
            /\ \A j \in 1..(i - 1) : coll[j]._id # id
    ELSE 0

RemoveAt(s, i) == SubSeq(s, 1, i - 1) \o SubSeq(s, i + 1, Len(s))

(***************************************************************************)
(* MemoryService (app/memory/service.py).  Each method is an operator from *)
(* the two collections and the call's arguments to the collections after   *)
(* the call, the value returned (ret) and whether the call raised.  The    *)
(* argument fault names the store call of the method that raises, "none"   *)
(* when the store answers every call.                                      *)
(***************************************************************************)
MemoryDoc(oid, character_id, content, source, importance, metadata) ==
    [_id |-> ObjectId(oid), character_id |-> character_id, content |-> content,
     source |-> source, importance |-> importance, metadata |-> metadata,
     access_count |-> 0]

\* result["id"] = str(result.pop("_id"))
AsDict(d) ==
    [id |-> Str(d._id), character_id |-> d.character_id, content |-> d.content,
     source |-> d.source, importance |-> d.importance, metadata |-> d.metadata,
     access_count |-> d.access_count]

WithScore(m, score) ==
    [id |-> m.id, character_id |-> m.character_id, content |-> m.content,
     source |-> m.source, importance |-> m.importance, metadata |-> m.metadata,
     access_count |-> m.access_count, score |-> score]

create_memory(mem, emb, oid, character_id, content, source, importance, metadata, modelOk, fault) ==
    IF fault = "insert_memory"
    THEN [mem |-> mem, emb |-> emb, oid |-> oid, ret |-> None, raised |-> TRUE]
    ELSE LET mem1 == Append(mem, MemoryDoc(oid, character_id, content, source,
                                           importance, metadata))
             memory_id == Str(ObjectId(oid))
             embedding_doc == [memory_id |-> memory_id, character_id |-> character_id,
                               embedding |-> get_embedding(content, modelOk)]
         IN  IF fault = "insert_embedding"
             THEN [mem |-> mem1, emb |-> emb, oid |-> oid + 1,
                   ret |-> None, raised |-> TRUE]
             ELSE [mem |-> mem1, emb |-> Append(emb, embedding_doc), oid |-> oid + 1,
                   ret |-> memory_id, raised |-> FALSE]

\* ret is <<>> for None and <<memory>> for a memory found; get_memory never raises.
get_memory(mem, memory_id, fault) ==
    LET key == IF IsValidHex(memory_id) THEN ParseObjectId(memory_id) ELSE memory_id
        i == FindById(mem, key)
    IN  IF fault = "find" \/ i = 0 \/ fault = "update"
        THEN [mem |-> mem, ret |-> <<>>]
        ELSE [mem |-> [mem EXCEPT ![i].access_count = @ + 1],
              ret |-> <<AsDict(mem[i])>>]

\* safe_updates: the updates without the restricted fields
SafeUpdates(updates) ==
    [k \in (DOMAIN updates) \ {"_id", "character_id", "created_at"} |-> updates[k]]

ApplySet(d, u) ==
    [d EXCEPT !.content = IF "content" \in DOMAIN u THEN u["content"] ELSE @,
              !.importance = IF "importance" \in DOMAIN u THEN u["importance"] ELSE @]

\* index of the first embedding record with the given memory_id, 0 when none
FindEmbedding(emb, memory_id) ==
    IF \E i \in 1..Len(emb) : emb[i].memory_id = memory_id
    THEN CHOOSE i \in 1..Len(emb) :
            /\ emb[i].memory_id = memory_id
            /\ \A j \in 1..(i - 1) : emb[j].memory_id # memory_id
    ELSE 0

update_memory(mem, emb, memory_id, updates, modelOk, fault) ==
    LET safe_updates == SafeUpdates(updates)
        i == FindById(mem, memory_id)
        mem1 == IF i = 0 THEN mem ELSE [mem EXCEPT ![i] = ApplySet(mem[i], safe_updates)]
        modified_count == IF mem1 # mem THEN 1 ELSE 0
        e == FindEmbedding(emb, memory_id)
        new_embedding == get_embedding(safe_updates["content"], modelOk)
    IN  IF fault = "update_memory"
        THEN [mem |-> mem, emb |-> emb, ret |-> FALSE, raised |-> TRUE]
        ELSE IF "content" \notin DOMAIN safe_updates
        THEN [mem |-> mem1, emb |-> emb, ret |-> modified_count > 0, raised |-> FALSE]
        ELSE IF fault = "find"
        THEN [mem |-> mem1, emb |-> emb, ret |-> FALSE, raised |-> TRUE]
        ELSE IF FindById(mem1, memory_id) = 0
        THEN [mem |-> mem1, emb |-> emb, ret |-> modified_count > 0, raised |-> FALSE]
        ELSE IF fault = "update_embedding"
        THEN [mem |-> mem1, emb |-> emb, ret |-> FALSE, raised |-> TRUE]
        ELSE [mem |-> mem1,
              emb |-> IF e = 0 THEN emb ELSE [emb EXCEPT ![e].embedding = new_embedding],
              ret |-> modified_count > 0, raised |-> FALSE]

delete_memory(mem, emb, memory_id, fault) ==
    LET i == FindById(mem, memory_id)
        deleted_count == IF i = 0 THEN 0 ELSE 1
        mem1 == IF i = 0 THEN mem ELSE RemoveAt(mem, i)
        e == FindEmbedding(emb, memory_id)
    IN  IF fault = "delete_memory"
        THEN [mem |-> mem, emb |-> emb, ret |-> FALSE, raised |-> TRUE]
        ELSE IF deleted_count > 0
        THEN IF fault = "delete_embedding"
             THEN [mem |-> mem1, emb |-> emb, ret |-> FALSE, raised |-> TRUE]
             ELSE [mem |-> mem1, emb |-> IF e = 0 THEN emb ELSE RemoveAt(emb, e),
                   ret |-> TRUE, raised |-> FALSE]
        ELSE [mem |-> mem1, emb |-> emb, ret |-> FALSE, raised |-> FALSE]

\* cursor.find(query).sort("importance", -1).limit(limit): the documents of the
\* character (and source, when given) by descending importance, ties in store order
RECURSIVE InsertByImportance(_, _)
InsertByImportance(x, s) ==
    IF s = <<>> THEN <<x>>
    ELSE IF Head(s).importance < x.importance THEN <<x>> \o s
    ELSE <<Head(s)>> \o InsertByImportance(x, Tail(s))

RECURSIVE SortByImportance(_)
SortByImportance(s) ==
    IF s = <<>> THEN <<>>
    ELSE InsertByImportance(s[Len(s)], SortByImportance(SubSeq(s, 1, Len(s) - 1)))

RECURSIVE MapAsDict(_)
MapAsDict(s) ==
    IF s = <<>> THEN <<>> ELSE <<AsDict(Head(s))>> \o MapAsDict(Tail(s))

\* source is <<>> when no source filter is given
get_character_memories(mem, character_id, limit, source, fault) ==
    LET matching == SelectSeq(mem, LAMBDA d :
                        /\ d.character_id = character_id
                        /\ (source # <<>> => <<d.source>> = source))
        results == SubSeq(SortByImportance(matching), 1, Min(limit, Len(matching)))
    IN  IF fault = "top"
        THEN [ret |-> <<>>, raised |-> TRUE]
        ELSE [ret |-> MapAsDict(results), raised |-> FALSE]

\* {"$regex": query, "$options": "i"} on content: the query occurs in the content
Contains(content, query) ==
    \E i \in 0..(Len(content) - Len(query)) :
        SubSeq(content, i + 1, i + Len(query)) = query

\* the manual scan's candidates: one {memory_id, score} per embedding record of
\* the character, in store order
RECURSIVE ScoreAll(_, _, _)
ScoreAll(emb, character_id, query_embedding) ==
    IF emb = <<>> THEN <<>>
    ELSE LET doc == Head(emb)
             rest == ScoreAll(Tail(emb), character_id, query_embedding)
         IN  IF doc.character_id = character_id
             THEN <<[memory_id |-> doc.memory_id,
                     score |-> cosine_similarity(query_embedding, doc.embedding)]>>
                  \o rest
             ELSE rest

\* "Get full memory documents": get_memory for each hit in order; the hit at
\* position failAt (0: none) meets a failing store and is dropped.
RECURSIVE FetchHits(_, _, _, _)
FetchHits(mem, hits, k, failAt) ==
    IF k > Len(hits) THEN [mem |-> mem, ret |-> <<>>]
    ELSE LET got == get_memory(mem, hits[k].memory_id,
                               IF k = failAt THEN "find" ELSE "none")
             rest == FetchHits(got.mem, hits, k + 1, failAt)
         IN  [mem |-> rest.mem,
              ret |-> (IF got.ret = <<>> THEN <<>>
                       ELSE <<WithScore(got.ret[1], hits[k].score)>>) \o rest.ret]

\* embedding_results.sort(...); embedding_results[:limit]
TopHits(emb, character_id, query_embedding, limit) ==
    Slice(SortDesc(ScoreAll(emb, character_id, query_embedding)), limit)

(***************************************************************************)
(* search_memories.  env.native is the outcome of the Atlas $search        *)
(* aggregate on character_memories: the documents create_memory writes     *)
(* carry no vector_embedding field, so the query raises or finds nothing.  *)
(* env.fault is "scan" when the embeddings query of the manual scan        *)
(* raises, "scan+text" when the text query raises as well, and             *)
(* "scan+text+top" / "scan+top" when the highest-importance query raises.  *)
(***************************************************************************)
search_memories(mem, emb, character_id, query, limit, env) ==
    LET query_embedding == get_embedding(query, env.modelOk)
        hits == TopHits(emb, character_id, query_embedding, limit)
        fetched == FetchHits(mem, hits, 1, env.failAt)
        textHits == SelectSeq(mem, LAMBDA d :
                        d.character_id = character_id /\ Contains(d.content, query))
        results == MapAsDict(SubSeq(textHits, 1, Min(limit, Len(textHits))))
        top == get_character_memories(mem, character_id, limit, <<>>,
                   IF env.fault \in {"scan+text+top", "scan+top"} THEN "top" ELSE "none")
    IN  IF env.fault \notin {"scan", "scan+text", "scan+text+top", "scan+top"}
        THEN [mem |-> fetched.mem, ret |-> fetched.ret, raised |-> FALSE,
              rung |-> "manual"]
        ELSE IF env.fault \in {"scan", "scan+top"} /\ results # <<>>
        THEN [mem |-> mem, ret |-> results, raised |-> FALSE, rung |-> "text"]
        ELSE [mem |-> mem, ret |-> top.ret, raised |-> top.raised, rung |-> "top"]

(***************************************************************************)
(* Calls on the memory service, as the memory endpoints and the pipeline   *)
(* make them: ids are passed as strings.  lastOp records the call.         *)
(***************************************************************************)
NoOp ==
    [op |-> "none", id |-> <<>>, character_id |-> "", content |-> <<>>, limit |-> 0,
     ret |-> <<>>, raised |-> FALSE, existed |-> FALSE, rung |-> "",
     faulted |-> FALSE, candidates |-> 0, linked |-> 0]

UpdateSets ==
    {[content |-> c] : c \in Contents}
    \cup {[importance |-> 8]}
    \cup {[content |-> <<"storm">>, character_id |-> "loki"]}

SearchEnvs ==
    {[modelOk |-> m, native |-> n, fault |-> "none", failAt |-> 0] :
        m \in BOOLEAN, n \in {"raise", "empty"}}
    \cup {[modelOk |-> TRUE, native |-> "empty", fault |-> "none", failAt |-> k] :
        k \in 1..2}
    \cup {[modelOk |-> TRUE, native |-> "raise", fault |-> f, failAt |-> 0] :
        f \in {"scan", "scan+text", "scan+top", "scan+text+top"}}

\* the memory whose id, as create_memory returned it, is the string s
Live(mem, s) == \E i \in 1..Len(mem) : Str(mem[i]._id) = s

LinkedEmbeddings(emb, s) == {i \in 1..Len(emb) : emb[i].memory_id = s}

InScope(emb, character_id) == {i \in 1..Len(emb) : emb[i].character_id = character_id}

AccessRoom(mem) == \A i \in 1..Len(mem) : mem[i].access_count < MaxAccess

CreateMemory ==
    /\ Len(memories) < MaxMemories
    /\ \E character_id \in Characters, content \in Contents,
          importance \in CreateImportances, modelOk \in {TRUE}, fault \in {"none", "insert_memory", "insert_embedding"} :
          LET r == create_memory(memories, embeddings, nextOid, character_id, content,
                                 "conversation", importance, <<>>, modelOk, fault)
          IN  /\ memories' = r.mem
              /\ embeddings' = r.emb
              /\ nextOid' = r.oid
              /\ lastOp' = [NoOp EXCEPT !.op = "create_memory", !.id = r.ret,
                              !.character_id = character_id, !.content = content,
                              !.raised = r.raised, !.faulted = (fault # "none")]
    /\ UNCHANGED <<auxVars, knowVars, pipeVars>>

GetMemory ==
    /\ AccessRoom(memories)
    /\ \E memory_id \in IdStrings, fault \in {"none", "find", "update"} :
          LET r == get_memory(memories, memory_id, fault)
          IN  /\ memories' = r.mem
              /\ lastOp' = [NoOp EXCEPT !.op = "get_memory", !.id = memory_id,
                              !.ret = r.ret, !.existed = Live(memories, memory_id),
                              !.faulted = (fault # "none")]
    /\ UNCHANGED <<auxVars, embeddings, nextOid, knowVars, pipeVars>>

UpdateMemory ==
    /\ \E memory_id \in IdStrings, updates \in UpdateSets, modelOk \in {TRUE},
          fault \in {"none", "update_memory", "find", "update_embedding"} :
          LET r == update_memory(memories, embeddings, memory_id, updates, modelOk, fault)
          IN  /\ memories' = r.mem
              /\ embeddings' = r.emb
              /\ lastOp' = [NoOp EXCEPT !.op = "update_memory", !.id = memory_id,
                              !.content = IF "content" \in DOMAIN updates
                                          THEN updates["content"] ELSE <<>>,
                              !.ret = <<r.ret>>, !.raised = r.raised,
                              !.existed = Live(memories, memory_id),
                              !.linked = Cardinality(LinkedEmbeddings(embeddings, memory_id)),
                              !.faulted = (fault # "none")]
    /\ UNCHANGED <<auxVars, nextOid, knowVars, pipeVars>>

DeleteMemory ==
    /\ \E memory_id \in IdStrings, fault \in {"none", "delete_memory", "delete_embedding"} :
          LET r == delete_memory(memories, embeddings, memory_id, fault)
          IN  /\ memories' = r.mem
              /\ embeddings' = r.emb
              /\ lastOp' = [NoOp EXCEPT !.op = "delete_memory", !.id = memory_id,
                              !.ret = <<r.ret>>, !.raised = r.raised,
                              !.existed = Live(memories, memory_id),
                              !.faulted = (fault # "none")]
    /\ UNCHANGED <<auxVars, nextOid, knowVars, pipeVars>>

SearchMemories ==
    /\ lastOp.op = "none" /\ ~kres.called
    /\ AccessRoom(memories)
    /\ \E character_id \in Characters, query \in Queries, limit \in Limits,
          env \in SearchEnvs :
          LET r == search_memories(memories, embeddings, character_id, query, limit, env)
          IN  /\ memories' = r.mem
              /\ lastOp' = [NoOp EXCEPT !.op = "search_memories",
                              !.character_id = character_id, !.content = query,
                              !.limit = limit, !.ret = r.ret, !.raised = r.raised,
                              !.rung = r.rung,
                              !.faulted = (env.failAt # 0),
                              !.candidates = Cardinality(InScope(embeddings, character_id))]
    /\ UNCHANGED <<auxVars, embeddings, nextOid, knowVars, pipeVars>>

GetCharacterMemories ==
    /\ lastOp.op = "none" /\ ~kres.called
    /\ \E character_id \in Characters, limit \in Limits, fault \in {"none", "top"} :
          LET r == get_character_memories(memories, character_id, limit, <<>>, fault)
          IN  lastOp' = [NoOp EXCEPT !.op = "get_character_memories",
                           !.character_id = character_id, !.limit = limit,
                           !.ret = r.ret, !.raised = r.raised,
                           !.faulted = (fault # "none")]
    /\ UNCHANGED <<auxVars, memories, embeddings, nextOid, knowVars, pipeVars>>

(***************************************************************************)
(* KnowledgeService.retrieve_similar (app/services/knowledge.py).          *)
(* A chunk document is [_id, content, source, vector_embedding, character] *)
(* where character is metadata.character and vector_embedding is <<>> when *)
(* the document has none.  A returned chunk carries id = str(_id) and      *)
(* score = <<s>> when metadata.similarity_score was set, <<>> otherwise.   *)
(***************************************************************************)
MaxChunks == 3
FetchCap == 100
ZeroScore == [num |-> 0, den |-> 1]

ChunkNames == {"Thor", "Iron Man"}
ChunkVectors == {<<1, 0>>, <<1, 2>>, <<2, 1>>}
TopKs == {-1, 0, 1, 2, 5}

ChunkDoc(n, character, vec) ==
    [_id |-> ObjectId(n), content |-> <<"fact">>, source |-> "wiki",
     vector_embedding |-> vec, character |-> character]

\* result["id"] = str(result.pop("_id")); KnowledgeChunk(**result); then the
\* similarity score of a chunk that has an embedding
ScoredChunk(doc, query_embedding) ==
    [id |-> Str(doc._id), content |-> doc.content, source |-> doc.source,
     character |-> doc.character,
     score |-> IF doc.vector_embedding # <<>>
               THEN <<cosine_similarity(query_embedding, doc.vector_embedding)>>
               ELSE <<>>]

\* key = lambda c: c.metadata.get("similarity_score", 0)
SortKey(c) == IF c.score = <<>> THEN ZeroScore ELSE c.score[1]

RECURSIVE InsertChunk(_, _)
InsertChunk(x, s) ==
    IF s = <<>> THEN <<x>>
    ELSE IF ScoreLess(SortKey(Head(s)), SortKey(x)) THEN <<x>> \o s
    ELSE <<Head(s)>> \o InsertChunk(x, Tail(s))

\* chunks.sort(key = ..., reverse = True)
RECURSIVE SortChunks(_)
SortChunks(s) ==
    IF s = <<>> THEN <<>>
    ELSE InsertChunk(s[Len(s)], SortChunks(SubSeq(s, 1, Len(s) - 1)))

RECURSIVE ScoreChunks(_, _)
ScoreChunks(docs, query_embedding) ==
    IF docs = <<>> THEN <<>>
    ELSE <<ScoredChunk(Head(docs), query_embedding)>>
         \o ScoreChunks(Tail(docs), query_embedding)

\* collection.find(filter_query): filter_metadata is <<>> (None) or <<name>>
MatchingChunks(coll, filter_metadata) ==
    SelectSeq(coll, LAMBDA d : filter_metadata # <<>> => d.character = filter_metadata[1])

\* fault "count": count_documents raises, outside the try, so the call raises;
\* fault "find": the query inside the try raises and the result is [].
retrieve_similar(coll, query, top_k, filter_metadata, modelOk, fault) ==
    LET query_embedding == get_embedding(query, modelOk)
        found == MatchingChunks(coll, filter_metadata)
        results == SubSeq(found, 1, Min(FetchCap, Len(found)))
        sorted == SortChunks(ScoreChunks(results, query_embedding))
    IN  IF fault = "count" THEN [ret |-> <<>>, raised |-> TRUE]
        ELSE IF fault = "find" THEN [ret |-> <<>>, raised |-> FALSE]
        ELSE [ret |-> Slice(sorted, top_k), raised |-> FALSE]

NoQuery ==
    [called |-> FALSE, query |-> <<>>, top_k |-> 0, filter |-> <<>>, modelOk |-> TRUE,
     ret |-> <<>>, raised |-> FALSE, faulted |-> FALSE, candidates |-> 0]

RetrieveSimilar ==
    /\ lastOp.op = "none" /\ ~kres.called
    /\ \E query \in Queries, top_k \in TopKs,
          filter_metadata \in {<<>>, <<"Thor">>},
          modelOk \in BOOLEAN, fault \in {"none", "count", "find"} :
          LET r == retrieve_similar(chunks, query, top_k, filter_metadata, modelOk, fault)
          IN  kres' = [called |-> TRUE, query |-> query, top_k |-> top_k,
                       filter |-> filter_metadata, modelOk |-> modelOk,
                       ret |-> r.ret, raised |-> r.raised,
                       faulted |-> (fault # "none"),
                       candidates |-> Len(MatchingChunks(chunks, filter_metadata))]
    /\ UNCHANGED <<auxVars, chunks, memVars, pipeVars>>

(***************************************************************************)
(* The dialogue graph (app/core/langgraph_orchestration.py).               *)
(***************************************************************************)
Nodes == {"knowledge_retrieval", "memory_retrieval", "context_assembly",
          "dialogue_generation", "memory_integration"}

\* workflow.set_entry_point
EntryPoint == "knowledge_retrieval"

\* a graph whose edge out of context_assembly bypasses dialogue_generation
NextNodeSkipping(node) ==
    CASE node = "knowledge_retrieval" -> "memory_retrieval"
      [] node = "memory_retrieval"    -> "context_assembly"
      [] node = "context_assembly"    -> "memory_integration"
      [] node = "dialogue_generation" -> "memory_integration"
      [] node = "memory_integration"  -> "END"

\* workflow.add_edge: the node (or END) that follows a node
NextNode(node) ==
    CASE node = "knowledge_retrieval" -> "memory_retrieval"
      [] node = "memory_retrieval"    -> "context_assembly"
      [] node = "context_assembly"    -> "dialogue_generation"
      [] node = "dialogue_generation" -> "memory_integration"
      [] node = "memory_integration"  -> "END"

UserInputs == {<<"hammer">>}
ConversationIds == {<<>>, <<"conv1">>}
PromptVersionIds == {<<>>}

KnowledgeTopK == 5
MemoryLimit == 3
ConversationImportance == 5

Apology == "I'm sorry, I'm having trouble responding right now."
NoKnowledgeSentinel == "NO KNOWLEDGE CHUNKS AVAILABLE."

\* GraphState(...) of generate_dialogue_response: the initial state
InitialState(user_input, character_id, conversation_id, prompt_version_id) ==
    [user_input |-> user_input, character_id |-> character_id,
     conversation_id |-> conversation_id, prompt_version_id |-> prompt_version_id,
     context |-> <<>>,
     knowledge_context |-> <<>>, character_memories |-> <<>>, character_info |-> <<>>,
     conversation_history |-> <<>>, assembled_context |-> <<>>,
     response |-> <<>>, updated_memory |-> <<>>, completed |-> FALSE, error |-> None]

\* the placeholder character profile; character_info is <<>> for the empty dict
\* and <<profile>> otherwise
Placeholder(character_id) ==
    <<[name |-> character_id, description |-> "A fictional character",
       personality |-> "Friendly and helpful"]>>

\* the characters collection: the profile stored for a character id
StoredProfile(character_id) ==
    <<[name |-> IF character_id = "character_thor" THEN "Thor" ELSE "Loki",
       description |-> "An Asgardian", personality |-> "Bold"]>>

\* character_id.replace('character_', '').replace('_', ' ').title()
TitleName(character_id) ==
    IF character_id = "character_thor" THEN "Thor" ELSE character_id

StartsWithCharacter(character_id) == character_id = "character_thor"

\* the last messages of the conversation document, as the store returns them; a
\* message whose role is not a string makes role.capitalize() raise
History(outcome) ==
    CASE outcome = "good" -> <<[role |-> "user", content |-> "hi", wellformed |-> TRUE]>>
      [] outcome = "bad"  -> <<[role |-> "", content |-> "hi", wellformed |-> FALSE]>>
      [] OTHER            -> <<>>

KnowledgeEnvs ==
    {[char |-> c, fault |-> f, modelOk |-> m, hist |-> h] :
        c \in {"found", "missing"}, f \in {"none", "count", "find"},
        m \in {TRUE}, h \in {"raise", "good", "bad"}}
    \cup {[char |-> "raise", fault |-> "none", modelOk |-> TRUE, hist |-> "none"]}

knowledge_retrieval(st, coll, env) ==
    LET character_id == st.character_id
        character_info == IF env.char = "found" THEN StoredProfile(character_id)
                          ELSE Placeholder(character_id)
        name == character_info[1].name
        query_text == st.user_input \o <<"Context: Character is", name>>
        filter_metadata == IF StartsWithCharacter(character_id)
                           THEN <<TitleName(character_id)>> ELSE <<name>>
        r == retrieve_similar(coll, query_text, KnowledgeTopK, filter_metadata,
                              env.modelOk, env.fault)
        conversation_history ==
            IF st.conversation_id # <<>> THEN History(env.hist) ELSE <<>>
        degraded(text) ==
            [st EXCEPT !.knowledge_context = <<>>,
                       !.character_info = Placeholder(character_id),
                       !.conversation_history = <<>>,
                       !.error = <<"Knowledge retrieval error: ", text>>]
    IN  IF env.char = "raise" THEN degraded("characters query failed")
        ELSE IF r.raised THEN degraded("count_documents failed")
        ELSE [st EXCEPT !.knowledge_context = r.ret,
                        !.character_info = character_info,
                        !.conversation_history = conversation_history]

MemoryEnvs ==
    {[search |-> e, top |-> t] : e \in SearchEnvs, t \in {"none", "top"}}

\* a retrieval stage that treats a character without memories as a failure
memory_retrieval_strict(st, mem, emb, env) ==
    LET s == search_memories(mem, emb, st.character_id, st.user_input, MemoryLimit,
                             env.search)
        top == get_character_memories(s.mem, st.character_id, MemoryLimit, <<>>, env.top)
    IN  IF s.raised
        THEN [mem |-> s.mem,
              st |-> [st EXCEPT !.error = <<"Memory retrieval error: ", "search failed">>,
                                !.character_memories = <<>>]]
        ELSE IF s.ret # <<>>
        THEN [mem |-> s.mem, st |-> [st EXCEPT !.character_memories = s.ret]]
        ELSE IF top.raised
        THEN [mem |-> s.mem,
              st |-> [st EXCEPT !.error = <<"Memory retrieval error: ", "query failed">>,
                                !.character_memories = <<>>]]
        ELSE IF top.ret = <<>>
        THEN [mem |-> s.mem,
              st |-> [st EXCEPT !.error = <<"Memory retrieval error: ", "no memories">>,
                                !.character_memories = <<>>]]
        ELSE [mem |-> s.mem, st |-> [st EXCEPT !.character_memories = top.ret]]

\* the template literal of the dialogue_generation node
DefaultPromptTemplate == "You are {character_name}, {character_description}."

\* the node reads state["prompt_version_id"] into a local it never uses and
\* formats the template literal
prompt_template(st) == DefaultPromptTemplate

\* a retrieval stage that keeps the empty search result instead of asking for
\* the highest-importance memories
memory_retrieval_search_only(st, mem, emb, env) ==
    LET s == search_memories(mem, emb, st.character_id, st.user_input, MemoryLimit,
                             env.search)
    IN  IF s.raised
        THEN [mem |-> s.mem,
              st |-> [st EXCEPT !.error = <<"Memory retrieval error: ", "search failed">>,
                                !.character_memories = <<>>]]
        ELSE [mem |-> s.mem, st |-> [st EXCEPT !.character_memories = s.ret]]

memory_retrieval(st, mem, emb, env) ==
    LET s == search_memories(mem, emb, st.character_id, st.user_input, MemoryLimit,
                             env.search)
        top == get_character_memories(s.mem, st.character_id, MemoryLimit, <<>>, env.top)
    IN  IF s.raised
        THEN [mem |-> s.mem,
              st |-> [st EXCEPT !.error = <<"Memory retrieval error: ", "search failed">>,
                                !.character_memories = <<>>]]
        ELSE IF s.ret # <<>>
        THEN [mem |-> s.mem, st |-> [st EXCEPT !.character_memories = s.ret]]
        ELSE IF top.raised
        THEN [mem |-> s.mem,
              st |-> [st EXCEPT !.error = <<"Memory retrieval error: ", "query failed">>,
                                !.character_memories = <<>>]]
        ELSE [mem |-> s.mem, st |-> [st EXCEPT !.character_memories = top.ret]]

RECURSIVE KnowledgeText(_)
\* "CHUNK i: content / Source / Relevance Score" for each chunk
KnowledgeText(cs) ==
    IF cs = <<>> THEN <<>>
    ELSE <<"CHUNK">> \o Head(cs).content \o <<"Source:", Head(cs).source>>
         \o KnowledgeText(Tail(cs))

RECURSIVE MemoriesText(_)
MemoriesText(ms) ==
    IF ms = <<>> THEN <<>>
    ELSE <<"-">> \o Head(ms).content \o MemoriesText(Tail(ms))

RECURSIVE HistoryText(_)
HistoryText(h) ==
    IF h = <<>> THEN <<>>
    ELSE <<Head(h).role, Head(h).content>> \o HistoryText(Tail(h))

\* an assembly that writes nothing where there is no knowledge
context_assembly_no_sentinel(st) ==
    LET character_info == IF st.character_info = <<>>
                          THEN Placeholder(st.character_id) ELSE st.character_info
        knowledge_text ==
            IF st.knowledge_context # <<>>
            THEN <<"RELEVANT KNOWLEDGE CHUNKS (USE ONLY THIS INFORMATION):">>
                 \o KnowledgeText(st.knowledge_context)
            ELSE <<>>
        memories_text ==
            IF st.character_memories # <<>>
            THEN <<"Character memories:">> \o MemoriesText(st.character_memories)
            ELSE <<>>
        history_text ==
            IF st.conversation_history # <<>>
            THEN <<"Previous conversation:">> \o HistoryText(st.conversation_history)
            ELSE <<>>
        raises == \E i \in 1..Len(st.conversation_history) :
                     ~st.conversation_history[i].wellformed
        assembled_context ==
            <<"CHARACTER INFORMATION:", character_info[1].name,
              character_info[1].description, character_info[1].personality,
              "KNOWLEDGE CONTEXT:">>
            \o knowledge_text \o memories_text \o history_text
            \o <<"USER INPUT:">> \o st.user_input
    IN  IF raises
        THEN [st EXCEPT !.character_info = character_info,
                        !.error = <<"Context assembly error: ", "AttributeError">>,
                        !.assembled_context =
                            <<"Error assembling context: ", "AttributeError">>]
        ELSE [st EXCEPT !.character_info = character_info,
                        !.assembled_context = assembled_context]

context_assembly(st) ==
    LET character_info == IF st.character_info = <<>>
                          THEN Placeholder(st.character_id) ELSE st.character_info
        knowledge_text ==
            IF st.knowledge_context # <<>>
            THEN <<"RELEVANT KNOWLEDGE CHUNKS (USE ONLY THIS INFORMATION):">>
                 \o KnowledgeText(st.knowledge_context)
            ELSE <<NoKnowledgeSentinel>>
        memories_text ==
            IF st.character_memories # <<>>
            THEN <<"Character memories:">> \o MemoriesText(st.character_memories)
            ELSE <<>>
        history_text ==
            IF st.conversation_history # <<>>
            THEN <<"Previous conversation:">> \o HistoryText(st.conversation_history)
            ELSE <<>>
        raises == \E i \in 1..Len(st.conversation_history) :
                     ~st.conversation_history[i].wellformed
        assembled_context ==
            <<"CHARACTER INFORMATION:", character_info[1].name,
              character_info[1].description, character_info[1].personality,
              "KNOWLEDGE CONTEXT:">>
            \o knowledge_text \o memories_text \o history_text
            \o <<"USER INPUT:">> \o st.user_input
    IN  IF raises
        THEN [st EXCEPT !.character_info = character_info,
                        !.error = <<"Context assembly error: ", "AttributeError">>,
                        !.assembled_context =
                            <<"Error assembling context: ", "AttributeError">>]
        ELSE [st EXCEPT !.character_info = character_info,
                        !.assembled_context = assembled_context]

\* a generation stage that keeps out of a run in which an error is recorded
dialogue_generation_guarded(st, llm) ==
    LET character_info == IF st.character_info = <<>>
                          THEN Placeholder(st.character_id) ELSE st.character_info
    IN  IF st.error # None
        THEN st
        ELSE IF llm = "raise"
        THEN [st EXCEPT !.character_info = character_info,
                        !.error = <<"Dialogue generation error: ", "provider failed">>,
                        !.response = <<Apology>>]
        ELSE [st EXCEPT !.character_info = character_info,
                        !.response = IF llm = "text" THEN <<"reply">> ELSE <<>>]

\* a generation stage whose except path answers the apology without recording
\* the error
dialogue_generation_unrecorded(st, llm) ==
    LET character_info == IF st.character_info = <<>>
                          THEN Placeholder(st.character_id) ELSE st.character_info
    IN  IF llm = "raise"
        THEN [st EXCEPT !.character_info = character_info,
                        !.response = <<Apology>>]
        ELSE [st EXCEPT !.character_info = character_info,
                        !.response = IF llm = "text" THEN <<"reply">> ELSE <<>>]

\* llm is the outcome of llm.chat.completions.create: "raise", "text" (a
\* non-empty content) or "empty" (the content is "" or None)
dialogue_generation(st, llm) ==
    LET character_info == IF st.character_info = <<>>
                          THEN Placeholder(st.character_id) ELSE st.character_info
    IN  IF llm = "raise"
        THEN [st EXCEPT !.character_info = character_info,
                        !.error = <<"Dialogue generation error: ", "provider failed">>,
                        !.response = <<Apology>>]
        ELSE [st EXCEPT !.character_info = character_info,
                        !.response = IF llm = "text" THEN <<"reply">> ELSE <<>>]

IntegrationEnvs ==
    {[modelOk |-> m, create |-> c, get |-> g] :
        m \in {TRUE}, c \in {"none", "insert_memory", "insert_embedding"},
        g \in {"none", "find"}}

\* an integration stage whose except path leaves the run incomplete
memory_integration_aborting(st, mem, emb, oid, env) ==
    LET memory_content == <<"User asked:">> \o st.user_input
                          \o <<"I responded:">> \o st.response
        c == create_memory(mem, emb, oid, st.character_id, memory_content,
                           "conversation", ConversationImportance,
                           [conversation_id |-> st.conversation_id], env.modelOk,
                           env.create)
        g == get_memory(c.mem, c.ret, env.get)
    IN  IF st.error # None
        THEN [mem |-> mem, emb |-> emb, oid |-> oid,
              st |-> [st EXCEPT !.completed = TRUE, !.updated_memory = <<>>]]
        ELSE IF st.response = <<>>
        THEN [mem |-> mem, emb |-> emb, oid |-> oid,
              st |-> [st EXCEPT !.error = <<"No response to store in memory">>,
                                !.completed = TRUE, !.updated_memory = <<>>]]
        ELSE IF c.raised
        THEN [mem |-> c.mem, emb |-> c.emb, oid |-> c.oid,
              st |-> [st EXCEPT !.error = <<"Memory integration error: ", "insert failed">>,
                                !.updated_memory = <<>>]]
        ELSE [mem |-> g.mem, emb |-> c.emb, oid |-> c.oid,
              st |-> [st EXCEPT !.updated_memory = g.ret, !.completed = TRUE]]

\* an integration stage that stores the exchange whatever happened before
memory_integration_unconditional(st, mem, emb, oid, env) ==
    LET memory_content == <<"User asked:">> \o st.user_input
                          \o <<"I responded:">> \o st.response
        c == create_memory(mem, emb, oid, st.character_id, memory_content,
                           "conversation", ConversationImportance,
                           [conversation_id |-> st.conversation_id], env.modelOk,
                           env.create)
        g == get_memory(c.mem, c.ret, env.get)
    IN  IF st.response = <<>>
        THEN [mem |-> mem, emb |-> emb, oid |-> oid,
              st |-> [st EXCEPT !.error = <<"No response to store in memory">>,
                                !.completed = TRUE, !.updated_memory = <<>>]]
        ELSE IF c.raised
        THEN [mem |-> c.mem, emb |-> c.emb, oid |-> c.oid,
              st |-> [st EXCEPT !.error = <<"Memory integration error: ", "insert failed">>,
                                !.updated_memory = <<>>, !.completed = TRUE]]
        ELSE [mem |-> g.mem, emb |-> c.emb, oid |-> c.oid,
              st |-> [st EXCEPT !.updated_memory = g.ret, !.completed = TRUE]]

\* an integration stage that records no error when there is no response
memory_integration_silent(st, mem, emb, oid, env) ==
    LET memory_content == <<"User asked:">> \o st.user_input
                          \o <<"I responded:">> \o st.response
        c == create_memory(mem, emb, oid, st.character_id, memory_content,
                           "conversation", ConversationImportance,
                           [conversation_id |-> st.conversation_id], env.modelOk,
                           env.create)
        g == get_memory(c.mem, c.ret, env.get)
    IN  IF st.error # None
        THEN [mem |-> mem, emb |-> emb, oid |-> oid,
              st |-> [st EXCEPT !.completed = TRUE, !.updated_memory = <<>>]]
        ELSE IF st.response = <<>>
        THEN [mem |-> mem, emb |-> emb, oid |-> oid,
              st |-> [st EXCEPT !.completed = TRUE, !.updated_memory = <<>>]]
        ELSE IF c.raised
        THEN [mem |-> c.mem, emb |-> c.emb, oid |-> c.oid,
              st |-> [st EXCEPT !.error = <<"Memory integration error: ", "insert failed">>,
                                !.updated_memory = <<>>, !.completed = TRUE]]
        ELSE [mem |-> g.mem, emb |-> c.emb, oid |-> c.oid,
              st |-> [st EXCEPT !.updated_memory = g.ret, !.completed = TRUE]]

memory_integration(st, mem, emb, oid, env) ==
    LET memory_content == <<"User asked:">> \o st.user_input
                          \o <<"I responded:">> \o st.response
        c == create_memory(mem, emb, oid, st.character_id, memory_content,
                           "conversation", ConversationImportance,
                           [conversation_id |-> st.conversation_id], env.modelOk,
                           env.create)
        g == get_memory(c.mem, c.ret, env.get)
    IN  IF st.error # None
        THEN [mem |-> mem, emb |-> emb, oid |-> oid,
              st |-> [st EXCEPT !.completed = TRUE, !.updated_memory = <<>>]]
        ELSE IF st.response = <<>>
        THEN [mem |-> mem, emb |-> emb, oid |-> oid,
              st |-> [st EXCEPT !.error = <<"No response to store in memory">>,
                                !.completed = TRUE, !.updated_memory = <<>>]]
        ELSE IF c.raised
        THEN [mem |-> c.mem, emb |-> c.emb, oid |-> c.oid,
              st |-> [st EXCEPT !.error = <<"Memory integration error: ", "insert failed">>,
                                !.updated_memory = <<>>, !.completed = TRUE]]
        ELSE [mem |-> g.mem, emb |-> c.emb, oid |-> c.oid,
              st |-> [st EXCEPT !.updated_memory = g.ret, !.completed = TRUE]]

RECURSIVE Ids(_)
Ids(ds) == IF ds = <<>> THEN <<>> ELSE <<Head(ds).id>> \o Ids(Tail(ds))

\* the final extraction of generate_dialogue_response
ResponseData(st) ==
    IF st.error # None
    THEN [response |-> <<Apology, " Error: ">> \o st.error,
          conversation_id |-> st.conversation_id,
          knowledge_used |-> <<>>, memories_used |-> <<>>,
          updated_memory |-> <<>>, error |-> st.error]
    ELSE [response |-> st.response,
          conversation_id |-> st.conversation_id,
          knowledge_used |-> Ids(st.knowledge_context),
          memories_used |-> Ids(st.character_memories),
          updated_memory |-> st.updated_memory, error |-> st.error]

\* the endpoint generate_with_langgraph: the message it answers with
generate_with_langgraph(res) ==
    [role |-> "assistant", content |-> res.response,
     knowledge_used |-> res.knowledge_used,
     conversation_id |-> IF res.conversation_id # <<>> THEN res.conversation_id
                         ELSE <<"temp_conversation_id">>]

(***************************************************************************)
(* One request at a time through generate_dialogue_response: StartRun      *)
(* builds the initial state, the graph runs the node at pc and follows its *)
(* edge, and Extract builds response_data once the graph reached END.      *)
(* run records the nodes executed, the nodes that took an except path, the *)
(* provider's outcome, the size of the collections when the run began,     *)
(* whether the character had no memory when memory_retrieval began,        *)
(* whether the store answered every query of that stage, whether an error  *)
(* was recorded when memory_integration began, which insert of its         *)
(* create_memory call the store refused, which queries memory_retrieval    *)
(* ran and how they ended (kept until the next node has run), and the      *)
(* prompt template dialogue_generation formatted.                          *)
(***************************************************************************)
NoRun ==
    [trace |-> <<>>, failed |-> {}, llm |-> "", transitions |-> 0,
     memBefore |-> 0, embBefore |-> 0, zeroMem |-> FALSE, storeOk |-> FALSE,
     errorBefore |-> FALSE, refused |-> "", path |-> "", template |-> ""]

NoResult ==
    [response |-> <<>>, conversation_id |-> <<>>, knowledge_used |-> <<>>,
     memories_used |-> <<>>, updated_memory |-> <<>>, error |-> None]

Ran(node, didFail) ==
    [run EXCEPT !.trace = Append(@, node),
                !.failed = IF didFail THEN @ \cup {node} ELSE @,
                !.transitions = @ + 1]

StartRun ==
    /\ pc \in {"idle", "returned"}
    /\ Len(memories) < MaxMemories
    /\ AccessRoom(memories)
    /\ \E user_input \in UserInputs, character_id \in Characters,
          conversation_id \in ConversationIds, prompt_version_id \in PromptVersionIds :
          state' = InitialState(user_input, character_id, conversation_id,
                                prompt_version_id)
    /\ pc' = EntryPoint
    /\ run' = [NoRun EXCEPT !.memBefore = Len(memories), !.embBefore = Len(embeddings)]
    /\ result' = NoResult
    /\ UNCHANGED <<auxVars, memVars, knowVars>>

\* a request that names a stored prompt version by the id the API returns
\* for it, str(_id)
StartVersionedRun ==
    /\ pc \in {"idle", "returned"}
    /\ Len(memories) < MaxMemories
    /\ AccessRoom(memories)
    /\ \E user_input \in UserInputs, character_id \in Characters,
          conversation_id \in ConversationIds, k \in 1..Len(versions) :
          state' = InitialState(user_input, character_id, conversation_id,
                                <<Str(versions[k]._id)>>)
    /\ pc' = EntryPoint
    /\ run' = [NoRun EXCEPT !.memBefore = Len(memories), !.embBefore = Len(embeddings)]
    /\ result' = NoResult
    /\ UNCHANGED <<auxVars, memVars, knowVars>>

KnowledgeRetrieval ==
    /\ pc = "knowledge_retrieval"
    /\ \E env \in KnowledgeEnvs :
          LET st == knowledge_retrieval(state, chunks, env)
          IN  /\ state' = st
              /\ run' = Ran(pc, st.error # state.error)
    /\ pc' = NextNode(pc)
    /\ UNCHANGED <<auxVars, result, memVars, knowVars>>

\* which queries of the stage ran and how they ended: the similarity search
\* raised, returned memories, or returned none and the highest-importance
\* query then raised or answered
SearchPath(st, mem, emb, env) ==
    LET s == search_memories(mem, emb, st.character_id, st.user_input, MemoryLimit,
                             env.search)
    IN  IF s.raised THEN "search raised"
        ELSE IF s.ret # <<>> THEN "search hit"
        ELSE IF env.top = "top" THEN "fallback raised"
        ELSE "fallback"

MemoryRetrieval ==
    /\ pc = "memory_retrieval"
    /\ \E env \in MemoryEnvs :
          LET r == memory_retrieval(state, memories, embeddings, env)
          IN  /\ state' = r.st
              /\ memories' = r.mem
              /\ run' = [Ran(pc, r.st.error # state.error) EXCEPT
                            !.zeroMem = \A i \in 1..Len(memories) :
                                           memories[i].character_id # state.character_id,
                            !.storeOk = /\ env.search.fault = "none"
                                        /\ env.search.failAt = 0
                                        /\ env.top = "none",
                            !.path = SearchPath(state, memories, embeddings, env)]
    /\ pc' = NextNode(pc)
    /\ UNCHANGED <<auxVars, result, embeddings, nextOid, lastOp, knowVars>>

ContextAssembly ==
    /\ pc = "context_assembly"
    /\ LET st == context_assembly(state)
       IN  /\ state' = st
           /\ run' = [Ran(pc, st.error # state.error) EXCEPT !.path = ""]
    /\ pc' = NextNode(pc)
    /\ UNCHANGED <<auxVars, result, memVars, knowVars>>

DialogueGeneration ==
    /\ pc = "dialogue_generation"
    /\ \E llm \in {"raise", "text", "empty"} :
          /\ state' = dialogue_generation(state, llm)
          /\ run' = [Ran(pc, llm = "raise") EXCEPT !.llm = llm,
                        !.template = prompt_template(state)]
    /\ pc' = NextNode(pc)
    /\ UNCHANGED <<auxVars, result, memVars, knowVars>>

MemoryIntegration ==
    /\ pc = "memory_integration"
    /\ \E env \in IntegrationEnvs :
          LET r == memory_integration(state, memories, embeddings, nextOid, env)
          IN  /\ state' = r.st
              /\ memories' = r.mem
              /\ embeddings' = r.emb
              /\ nextOid' = r.oid
              /\ run' = [Ran(pc, state.error = None /\ state.response # <<>>
                                 /\ r.st.error # None) EXCEPT
                            !.errorBefore = state.error # None,
                            !.refused = IF state.error = None /\ state.response # <<>>
                                        THEN env.create ELSE ""]
    /\ pc' = NextNode(pc)
    /\ UNCHANGED <<auxVars, result, lastOp, knowVars>>

Extract ==
    /\ pc = "END"
    /\ result' = ResponseData(state)
    /\ pc' = "returned"
    /\ UNCHANGED <<auxVars, state, run, memVars, knowVars>>

(***************************************************************************)
(* Concurrent get_memory requests.  Each request is a coroutine that       *)
(* suspends at its two store calls: find_one, then update_one with $inc,   *)
(* which the store applies to the document atomically.  A reader is at     *)
(* "idle", "found" (find_one answered, result holds the document read) or  *)
(* "done" (ret is what the request returned).                              *)
(***************************************************************************)
NumReaders == 3

Readers == 1..NumReaders

IdleReader == [at |-> "idle", id |-> <<>>, result |-> <<>>, ret |-> <<>>]

\* an update that writes back the count of the document read, plus one
UpdateAccessStatsWriteBack(mem, found) ==
    LET i == FindById(mem, found._id)
    IN  IF i = 0 THEN mem ELSE [mem EXCEPT ![i].access_count = found.access_count + 1]

\* update_one({"_id": result["_id"]}, {"$inc": {"access_count": 1}}): the store
\* increments the stored document itself
UpdateAccessStats(mem, found) ==
    LET i == FindById(mem, found._id)
    IN  IF i = 0 THEN mem ELSE [mem EXCEPT ![i].access_count = @ + 1]

\* find_one, by ObjectId when the id parses and by the string otherwise; a
\* failing query or no document ends the request with None
ReaderFind(r) ==
    /\ readers[r].at = "idle"
    /\ \E memory_id \in IdStrings, fault \in {"none", "find"} :
          LET key == IF IsValidHex(memory_id) THEN ParseObjectId(memory_id) ELSE memory_id
              i == FindById(memories, key)
          IN  readers' = [readers EXCEPT ![r] =
                  IF fault = "find" \/ i = 0
                  THEN [at |-> "done", id |-> memory_id, result |-> <<>>, ret |-> <<>>]
                  ELSE [at |-> "found", id |-> memory_id, result |-> <<memories[i]>>,
                        ret |-> <<>>]]
    /\ UNCHANGED <<procVars, reqVars, memVars, knowVars, pipeVars>>

\* the access update, then the document read by find_one is returned; a failing
\* update ends the request with None
ReaderUpdate(r) ==
    /\ readers[r].at = "found"
    /\ \E fault \in {"none", "update"} :
          IF fault = "update"
          THEN /\ readers' = [readers EXCEPT ![r].at = "done"]
               /\ UNCHANGED memories
          ELSE /\ memories' = UpdateAccessStats(memories, readers[r].result[1])
               /\ readers' = [readers EXCEPT ![r].at = "done",
                                              ![r].ret = <<AsDict(readers[r].result[1])>>]
    /\ UNCHANGED <<procVars, reqVars, embeddings, nextOid, lastOp, knowVars, pipeVars>>

(***************************************************************************)
(* DialogueService (app/services/dialogue.py): the conversations           *)
(* collection.  A conversation document is [_id, messages]; insert_one     *)
(* gives it an ObjectId, and the service hands out its hex string.  A       *)
(* message is [role, content].                                             *)
(***************************************************************************)
MaxConversations == 1
MaxMessages == 3

Messages ==
    {[role |-> "user", content |-> <<"hammer">>],
     [role |-> "assistant", content |-> <<"reply">>]}

\* Conversation(participant_ids, metadata).dict(): no message yet
ConversationDoc(n) == [_id |-> ObjectId(n), messages |-> <<>>]

\* the services' conversion of a string id: ObjectId(conversation_id) when the
\* string parses, the string as it is otherwise
AsObjectId(id) == IF id[1] = "str" /\ IsValidHex(id) THEN ParseObjectId(id) ELSE id

create_conversation(convs, fault) ==
    IF fault = "create"
    THEN [convs |-> convs, ret |-> <<>>, raised |-> TRUE]
    ELSE [convs |-> Append(convs, ConversationDoc(Len(convs) + 1)),
          ret |-> Str(ObjectId(Len(convs) + 1)), raised |-> FALSE]

\* <<>> for None, <<conversation>> when found
get_conversation(convs, conversation_id) ==
    LET i == FindById(convs, AsObjectId(conversation_id))
    IN  IF i = 0 THEN <<>> ELSE <<convs[i]>>

\* an add_message that stores the message list anew instead of pushing
add_message_overwriting(convs, conversation_id, message) ==
    LET i == FindById(convs, AsObjectId(conversation_id))
    IN  [convs |-> IF i = 0 THEN convs
                   ELSE [convs EXCEPT ![i].messages = <<message>>],
         ret |-> i # 0]

\* update_one with $push; ret is modified_count > 0
add_message(convs, conversation_id, message) ==
    LET i == FindById(convs, AsObjectId(conversation_id))
    IN  [convs |-> IF i = 0 THEN convs
                   ELSE [convs EXCEPT ![i].messages = Append(@, message)],
         ret |-> i # 0]

\* the string generate_dialogue uses when create_conversation raised:
\* "temp_conversation_" and eight characters of a hash
TempConversation == <<"str", 0>>

\* generate_dialogue, as far as the conversations collection goes.  fault
\* names the call that raises: "context" (retrieve_context), "llm" (the
\* provider), "create" (create_conversation), "first" or "second" (the two
\* add_message calls).  ret is the conversation id of the DialogueResponse,
\* store the number of store calls made on the characters and conversations
\* collections (get_character_info, get_recent_messages, insert_one, update_one).
generate_dialogue(convs, conversation_id, user_message, fault) ==
    LET read == IF conversation_id # <<>> THEN 2 ELSE 1
        c == create_conversation(convs, fault)
        cid == IF conversation_id # <<>> THEN conversation_id
               ELSE IF c.raised THEN TempConversation ELSE c.ret
        convs1 == IF conversation_id # <<>> THEN convs ELSE c.convs
        made == IF conversation_id # <<>> THEN 0 ELSE 1
        first == add_message(convs1, cid,
                             [role |-> "assistant", content |-> <<"reply">>])
        second == add_message(first.convs, cid,
                              [role |-> "user", content |-> user_message])
    IN  IF fault = "context"
        THEN [convs |-> convs, store |-> 1,
              ret |-> IF conversation_id # <<>> THEN conversation_id
                      ELSE <<"error_conversation">>]
        ELSE IF fault = "llm"
        THEN [convs |-> convs, store |-> read,
              ret |-> IF conversation_id # <<>> THEN conversation_id
                      ELSE <<"error_conversation">>]
        ELSE IF fault = "first"
        THEN [convs |-> convs1, store |-> read + made + 1, ret |-> cid]
        ELSE IF fault = "second"
        THEN [convs |-> first.convs, store |-> read + made + 2, ret |-> cid]
        ELSE [convs |-> second.convs, store |-> read + made + 2, ret |-> cid]

(***************************************************************************)
(* PromptService (app/services/prompts.py) and the by-id operations of     *)
(* KnowledgeService.  insert_one gives every document an ObjectId; the     *)
(* services filter on the id string they are given, which get_chunk alone  *)
(* converts first.  A template is [_id, name], a version                   *)
(* [_id, prompt_template_id, template].                                    *)
(***************************************************************************)
TemplateDoc(n) == [_id |-> ObjectId(n), name |-> "dialogue"]

VersionDoc(n, prompt_template_id) ==
    [_id |-> ObjectId(n), prompt_template_id |-> prompt_template_id,
     template |-> "v1"]

\* the fields of the request body, without its id
Bodies ==
    [chunk |-> [content |-> <<"storm">>], template |-> [name |-> "renamed"],
     version |-> [template |-> "v2"]]

\* update_one({"_id": id}, {"$set": body}); updated_at is part of every body,
\* so a matched document is a modified one
update_one(coll, id, body) ==
    LET i == FindById(coll, id)
    IN  [coll |-> IF i = 0 THEN coll
                  ELSE [coll EXCEPT ![i] =
                           [k \in DOMAIN @ |-> IF k \in DOMAIN body THEN body[k] ELSE @[k]]],
         modified_count |-> IF i = 0 THEN 0 ELSE 1]

delete_one(coll, id) ==
    LET i == FindById(coll, id)
    IN  [coll |-> IF i = 0 THEN coll ELSE RemoveAt(coll, i),
         deleted_count |-> IF i = 0 THEN 0 ELSE 1]

\* delete_many({"prompt_template_id": template_id})
delete_many(vers, template_id) ==
    SelectSeq(vers, LAMBDA v : v.prompt_template_id # template_id)

\* find_one of get_chunk, get_template and get_version: 0 when there is none
get_document(kind, coll, id) ==
    FindById(coll, IF kind = "chunk" THEN AsObjectId(id) ELSE id)

\* fault is "none", "versions" (delete_many raises) or "template" (delete_one
\* raises)
delete_template(tpls, vers, template_id, fault) ==
    LET vers1 == delete_many(vers, template_id)
        d == delete_one(tpls, template_id)
    IN  IF fault = "versions"
        THEN [tpls |-> tpls, vers |-> vers, ret |-> FALSE, raised |-> TRUE]
        ELSE IF fault = "template"
        THEN [tpls |-> tpls, vers |-> vers1, ret |-> FALSE, raised |-> TRUE]
        ELSE [tpls |-> d.coll, vers |-> vers1, ret |-> d.deleted_count > 0,
              raised |-> FALSE]

\* the document whose id, as the create call returned it, is the string s
Exists(coll, s) == \E i \in 1..Len(coll) : Str(coll[i]._id) = s

(***************************************************************************)
(* The request boundary (app/api/endpoints).  http records the endpoint    *)
(* served last: the path id, the status answered, the number of store      *)
(* calls the handler made, whether the id named a stored document when the *)
(* request arrived, whether the request was invalid (an id that is not an  *)
(* ObjectId string, a body id other than the path id) and whether the      *)
(* store raised.                                                           *)
(***************************************************************************)
NoRequest ==
    [endpoint |-> "", id |-> <<>>, status |-> 0, store |-> 0, existed |-> FALSE,
     invalid |-> FALSE, fault |-> FALSE]

Served(endpoint, id, status, store, existed, invalid, fault) ==
    [endpoint |-> endpoint, id |-> id, status |-> status, store |-> store,
     existed |-> existed, invalid |-> invalid, fault |-> fault]

Kinds == {"chunk", "template", "version"}

Collection(kind) ==
    IF kind = "chunk" THEN chunks ELSE IF kind = "template" THEN templates ELSE versions

\* room for the two messages of one more exchange
MessageRoom(convs, k) == \A i \in 1..Len(convs) : Len(convs[i].messages) + k <= MaxMessages

\* GET /memory/{memory_id}
GetMemoryEndpoint ==
    /\ AccessRoom(memories)
    /\ \E memory_id \in IdStrings :
          LET memory == get_memory(memories, memory_id, "none")
          IN  /\ memories' = memory.mem
              /\ http' = Served("get_memory", memory_id,
                                IF memory.ret = <<>> THEN 404 ELSE 200,
                                IF memory.ret = <<>> THEN 1 ELSE 2,
                                Live(memories, memory_id), FALSE, FALSE)
    /\ UNCHANGED <<procVars, readers, conversations, templates, versions, embeddings, nextOid,
                   lastOp, knowVars, pipeVars>>

\* PUT /memory/{memory_id}: the handler re-raises its own HTTPException
UpdateMemoryEndpoint ==
    /\ AccessRoom(memories)
    /\ \E memory_id \in IdStrings, updates \in UpdateSets,
          fault \in {"none", "update_memory"} :
          LET existing_memory == get_memory(memories, memory_id, "none")
              u == update_memory(existing_memory.mem, embeddings, memory_id, updates,
                                 TRUE, fault)
              updated_memory == get_memory(u.mem, memory_id, "none")
              status == IF existing_memory.ret = <<>> THEN 404
                        ELSE IF u.raised \/ ~u.ret THEN 500 ELSE 200
          IN  /\ memories' = IF status = 404 THEN existing_memory.mem
                             ELSE IF status = 500 THEN u.mem ELSE updated_memory.mem
              /\ embeddings' = IF status = 404 THEN embeddings ELSE u.emb
              /\ http' = Served("update_memory", memory_id, status,
                                IF status = 404 THEN 1 ELSE 3,
                                Live(memories, memory_id), FALSE, fault # "none")
    /\ UNCHANGED <<procVars, readers, conversations, templates, versions, nextOid, lastOp,
                   knowVars, pipeVars>>

\* DELETE /memory/{memory_id}: the handler's only except clause is
\* "except Exception", which also catches the HTTPException it raised itself
DeleteMemoryEndpoint ==
    /\ AccessRoom(memories)
    /\ \E memory_id \in IdStrings, fault \in {"none", "delete_memory"} :
          LET existing_memory == get_memory(memories, memory_id, "none")
              d == delete_memory(existing_memory.mem, embeddings, memory_id, fault)
              status == IF existing_memory.ret = <<>> THEN 500
                        ELSE IF d.raised \/ ~d.ret THEN 500 ELSE 200
          IN  /\ memories' = IF existing_memory.ret = <<>> THEN existing_memory.mem
                             ELSE d.mem
              /\ embeddings' = IF existing_memory.ret = <<>> THEN embeddings ELSE d.emb
              /\ http' = Served("delete_memory", memory_id, status,
                                IF existing_memory.ret = <<>> THEN 1 ELSE 3,
                                Live(memories, memory_id), FALSE, fault # "none")
    /\ UNCHANGED <<procVars, readers, conversations, templates, versions, nextOid, lastOp,
                   knowVars, pipeVars>>

\* GET /knowledge/chunks/{id}, /prompts/templates/{id}, /prompts/versions/{id};
\* get_chunk catches a store failure and answers None
GetDocument ==
    /\ \E kind \in Kinds, id \in IdStrings, fault \in BOOLEAN :
          LET i == get_document(kind, Collection(kind), id)
          IN  http' = Served("get_" \o kind, id,
                             IF fault THEN (IF kind = "chunk" THEN 404 ELSE 500)
                             ELSE IF i = 0 THEN 404 ELSE 200,
                             1, Exists(Collection(kind), id), FALSE, fault)
    /\ UNCHANGED <<procVars, readers, conversations, templates, versions, memVars, knowVars,
                   pipeVars>>

\* PUT /knowledge/chunks/{id}, /prompts/templates/{id}, /prompts/versions/{id}
UpdateDocument ==
    /\ \E kind \in Kinds, id \in IdStrings, body_id \in IdStrings, fault \in BOOLEAN :
          LET u == update_one(Collection(kind), body_id, Bodies[kind])
              applied == body_id = id /\ ~fault
          IN  /\ http' = Served("update_" \o kind, id,
                                IF body_id # id THEN 400
                                ELSE IF fault THEN 500
                                ELSE IF u.modified_count > 0 THEN 200 ELSE 404,
                                IF body_id # id THEN 0 ELSE 1,
                                Exists(Collection(kind), id), body_id # id, fault)
              /\ chunks' = IF applied /\ kind = "chunk" THEN u.coll ELSE chunks
              /\ templates' = IF applied /\ kind = "template" THEN u.coll ELSE templates
              /\ versions' = IF applied /\ kind = "version" THEN u.coll ELSE versions
    /\ UNCHANGED <<procVars, readers, conversations, memVars, kres, pipeVars>>

\* DELETE /knowledge/chunks/{chunk_id}
DeleteChunk ==
    /\ \E chunk_id \in IdStrings, fault \in BOOLEAN :
          LET d == delete_one(chunks, chunk_id)
          IN  /\ chunks' = IF fault THEN chunks ELSE d.coll
              /\ http' = Served("delete_chunk", chunk_id,
                                IF fault THEN 500
                                ELSE IF d.deleted_count > 0 THEN 200 ELSE 404,
                                1, Exists(chunks, chunk_id), FALSE, fault)
    /\ UNCHANGED <<procVars, readers, conversations, templates, versions, memVars, kres, pipeVars>>

\* DELETE /prompts/templates/{template_id}
DeleteTemplate ==
    /\ \E template_id \in IdStrings, fault \in {"none", "versions", "template"} :
          LET d == delete_template(templates, versions, template_id, fault)
          IN  /\ templates' = d.tpls
              /\ versions' = d.vers
              /\ http' = Served("delete_template", template_id,
                                IF d.raised THEN 500 ELSE IF d.ret THEN 200 ELSE 404,
                                IF fault = "versions" THEN 1 ELSE 2,
                                Exists(templates, template_id), FALSE, d.raised)
    /\ UNCHANGED <<procVars, readers, conversations, memVars, knowVars, pipeVars>>

\* GET /dialogue/conversations/{conversation_id}
GetConversationEndpoint ==
    /\ \E conversation_id \in IdStrings :
          LET conversation == get_conversation(conversations,
                                               ParseObjectId(conversation_id))
          IN  http' = IF ~IsValidHex(conversation_id)
                      THEN Served("get_conversation", conversation_id, 400, 0,
                                  FALSE, TRUE, FALSE)
                      ELSE Served("get_conversation", conversation_id,
                                  IF conversation = <<>> THEN 404 ELSE 200, 1,
                                  Exists(conversations, conversation_id), FALSE, FALSE)
    /\ UNCHANGED <<procVars, readers, conversations, templates, versions, memVars, knowVars,
                   pipeVars>>

\* POST /dialogue/conversations/{conversation_id}/messages
AddMessageEndpoint ==
    /\ MessageRoom(conversations, 1)
    /\ \E conversation_id \in IdStrings, message \in Messages, fault \in BOOLEAN :
          LET obj_id == ParseObjectId(conversation_id)
              conversation == get_conversation(conversations, obj_id)
              a == add_message(conversations, obj_id, message)
          IN  IF ~IsValidHex(conversation_id)
              THEN /\ http' = Served("add_message", conversation_id, 400, 0,
                                     FALSE, TRUE, FALSE)
                   /\ UNCHANGED conversations
              ELSE IF conversation = <<>>
              THEN /\ http' = Served("add_message", conversation_id, 404, 1,
                                     FALSE, FALSE, FALSE)
                   /\ UNCHANGED conversations
              ELSE /\ http' = Served("add_message", conversation_id,
                                     IF fault \/ ~a.ret THEN 500 ELSE 200, 2,
                                     TRUE, FALSE, fault)
                   /\ conversations' = IF fault THEN conversations ELSE a.convs
    /\ UNCHANGED <<procVars, readers, templates, versions, memVars, knowVars, pipeVars>>

GenerateFaults == {"none", "context", "llm", "create", "first", "second"}

\* POST /dialogue/generate: the service answers every request
GenerateDialogueEndpoint ==
    /\ MessageRoom(conversations, 2)
    /\ \E conversation_id \in {<<>>} \cup IdStrings, user_message \in UserInputs,
          fault \in GenerateFaults :
          /\ conversation_id = <<>> => Len(conversations) < MaxConversations
          /\ LET r == generate_dialogue(conversations, conversation_id, user_message, fault)
             IN  /\ conversations' = r.convs
                 /\ http' = Served("generate_dialogue", conversation_id, 200, r.store,
                                   Exists(conversations, conversation_id),
                                   conversation_id # <<>> /\ ~IsValidHex(conversation_id),
                                   fault # "none")
    /\ UNCHANGED <<procVars, readers, templates, versions, memVars, knowVars, pipeVars>>

\* the dialogue service called directly: POST /dialogue/conversations hands
\* its arguments to create_conversation, the websocket manager calls
\* generate_dialogue
CreateConversation ==
    /\ Len(conversations) < MaxConversations
    /\ \E fault \in {"none", "create"} :
          conversations' = create_conversation(conversations, fault).convs
    /\ UNCHANGED <<procVars, readers, templates, versions, http, memVars, knowVars, pipeVars>>

AddMessage ==
    /\ MessageRoom(conversations, 1)
    /\ \E conversation_id \in IdStrings, message \in Messages :
          conversations' = add_message(conversations, conversation_id, message).convs
    /\ UNCHANGED <<procVars, readers, templates, versions, http, memVars, knowVars, pipeVars>>

GenerateDialogue ==
    /\ MessageRoom(conversations, 2)
    /\ \E conversation_id \in {<<>>} \cup IdStrings, user_message \in UserInputs,
          fault \in GenerateFaults :
          /\ conversation_id = <<>> => Len(conversations) < MaxConversations
          /\ conversations' = generate_dialogue(conversations, conversation_id,
                                                user_message, fault).convs
    /\ UNCHANGED <<procVars, readers, templates, versions, http, memVars, knowVars, pipeVars>>

(***************************************************************************)
(* WebSocketManager (app/services/websocket.py) and websocket_endpoint     *)
(* (app/api/websocket.py).  The server runs on one event loop: a coroutine *)
(* runs without interruption from one await to the next, so each action    *)
(* below is the code between two awaits.  A dict is a sequence of entries  *)
(* in insertion order: active_connections holds [client_id, websocket],    *)
(* connection_metadata holds [client_id, last_activity] with last_activity *)
(* 0 at connect and 1 once refreshed.                                      *)
(***************************************************************************)
NumSockets == 3
Sockets == 1..NumSockets
\* the client_id query parameters the clients send
ClientIds == {<<"client", 1>>}

\* str(uuid.uuid4()) for the socket that sent no client_id
Uuid(websocket) == <<"uuid", websocket>>

Keys(d) == {d[i].client_id : i \in 1..Len(d)}

KeyList(d) == [i \in 1..Len(d) |-> d[i].client_id]

\* d[key] = entry: an existing key keeps its position
SetItem(d, entry) ==
    IF entry.client_id \in Keys(d)
    THEN [i \in 1..Len(d) |-> IF d[i].client_id = entry.client_id THEN entry ELSE d[i]]
    ELSE Append(d, entry)

\* d.pop(key, None)
Pop(d, key) == SelectSeq(d, LAMBDA e : e.client_id # key)

\* connect after websocket.accept() returned: both maps are written
connect(ac, cm, websocket, client_id) ==
    LET id == IF client_id = <<>> THEN Uuid(websocket) ELSE client_id[1]
    IN  [ac |-> SetItem(ac, [client_id |-> id, websocket |-> websocket]),
         cm |-> SetItem(cm, [client_id |-> id, last_activity |-> 0]),
         ret |-> id]

\* a disconnect that forgets the socket and keeps its metadata
disconnect_socket_only(ac, cm, client_id) ==
    [ac |-> Pop(ac, client_id), cm |-> cm]

disconnect(ac, cm, client_id) ==
    IF client_id \in Keys(ac)
    THEN [ac |-> Pop(ac, client_id), cm |-> Pop(cm, client_id)]
    ELSE [ac |-> ac, cm |-> cm]

\* connection_metadata[client_id].last_activity = datetime.utcnow(), when the
\* client is known
Touch(cm, client_id) ==
    [i \in 1..Len(cm) |-> IF cm[i].client_id = client_id
                          THEN [cm[i] EXCEPT !.last_activity = 1] ELSE cm[i]]

\* a send_event that leaves a client registered after its send raised
send_event_resumed_keeping(ac, cm, client_id, sent) ==
    IF sent
    THEN [ac |-> ac, cm |-> Touch(cm, client_id), ret |-> TRUE]
    ELSE [ac |-> ac, cm |-> cm, ret |-> FALSE]

\* send_event from the moment its send_json returned (sent) or raised
send_event_resumed(ac, cm, client_id, sent) ==
    IF sent
    THEN [ac |-> ac, cm |-> Touch(cm, client_id), ret |-> TRUE]
    ELSE LET d == disconnect(ac, cm, client_id)
         IN  [ac |-> d.ac, cm |-> d.cm, ret |-> FALSE]

RECURSIVE NextRecipient(_, _, _)
\* the loop of broadcast_event up to its next await: excluded ids are skipped
\* and send_event returns False at once for an id that is no longer registered
NextRecipient(pending, exclude, ac) ==
    IF pending = <<>> THEN [awaiting |-> <<>>, pending |-> <<>>]
    ELSE IF Head(pending) \in exclude \/ Head(pending) \notin Keys(ac)
    THEN NextRecipient(Tail(pending), exclude, ac)
    ELSE [awaiting |-> <<Head(pending)>>, pending |-> Tail(pending)]

\* call: op is the manager call, client_id the argument of send_event,
\* awaiting the client whose send_json is in
\* progress, pending the ids broadcast_event has not reached, sent_to its
\* list; done once the call returned, with ret the list broadcast_event
\* returned and success the value send_event returned.  start, delivered and raised
\* note the keys registered when a broadcast began and the clients whose
\* send_json returned or raised.
NoCall ==
    [op |-> "none", client_id |-> <<>>, awaiting |-> <<>>, pending |-> <<>>, exclude |-> {},
     sent_to |-> <<>>, done |-> FALSE, ret |-> <<>>, success |-> FALSE,
     start |-> {},
     delivered |-> {}, raised |-> {}]

NewSocket == [at |-> "new", client_id |-> <<>>]

InitManager ==
    /\ active_connections = <<>>
    /\ connection_metadata = <<>>
    /\ sockets = [s \in Sockets |-> NewSocket]
    /\ call = NoCall

storeVars == <<memVars, knowVars, pipeVars, readers, reqVars, versionVars, evalVars>>

\* websocket_endpoint up to its welcome send: accept, then connect registers
\* the socket; a failing accept ends the task with nothing registered
Connect(s) ==
    /\ sockets[s].at = "new"
    /\ \E client_id \in {<<>>} \cup {<<c>> : c \in ClientIds}, accepted \in BOOLEAN :
          IF accepted
          THEN LET r == connect(active_connections, connection_metadata, s, client_id)
               IN  /\ active_connections' = r.ac
                   /\ connection_metadata' = r.cm
                   /\ sockets' = [sockets EXCEPT ![s] = [at |-> "welcome",
                                                         client_id |-> <<r.ret>>]]
          ELSE /\ sockets' = [sockets EXCEPT ![s].at = "closed"]
               /\ UNCHANGED <<active_connections, connection_metadata>>
    /\ UNCHANGED <<call, storeVars>>

\* the welcome send_json is outside the endpoint's try: when it raises the
\* task ends without a disconnect
Welcome(s) ==
    /\ sockets[s].at = "welcome"
    /\ \E sent \in BOOLEAN :
          sockets' = [sockets EXCEPT ![s].at = IF sent THEN "listening" ELSE "closed"]
    /\ UNCHANGED <<active_connections, connection_metadata, call, storeVars>>

\* listen_for_messages, an event arrived: handle_received_event refreshes
\* the sender's metadata (sender_id defaults to the socket's client_id); the
\* sends its handlers make are send_event calls
ReceiveEvent(s) ==
    /\ sockets[s].at = "listening"
    /\ \E sender_id \in {sockets[s].client_id[1]} \cup ClientIds :
          connection_metadata' = Touch(connection_metadata, sender_id)
    /\ UNCHANGED <<active_connections, sockets, call, storeVars>>

\* listen_for_messages, receive_json raised (WebSocketDisconnect or another
\* exception): disconnect(client_id) with the id the task connected under
ReceiveClosed(s) ==
    /\ sockets[s].at = "listening"
    /\ LET d == disconnect(active_connections, connection_metadata,
                           sockets[s].client_id[1])
       IN  /\ active_connections' = d.ac
           /\ connection_metadata' = d.cm
    /\ sockets' = [sockets EXCEPT ![s].at = "closed"]
    /\ UNCHANGED <<call, storeVars>>

AllIds == ClientIds \cup {Uuid(s) : s \in Sockets}

\* send_event up to its send_json: False at once for an unregistered id
SendEvent ==
    /\ call.op = "none" \/ call.done
    /\ \E client_id \in AllIds :
          call' = IF client_id \notin Keys(active_connections)
                  THEN [NoCall EXCEPT !.op = "send_event", !.done = TRUE,
                                      !.client_id = <<client_id>>,
                                      !.success = FALSE]
                  ELSE [NoCall EXCEPT !.op = "send_event",
                                      !.client_id = <<client_id>>,
                                      !.awaiting = <<client_id>>]
    /\ UNCHANGED <<active_connections, connection_metadata, sockets, storeVars>>

\* send_event, its send_json returned or raised
SendEventResumed ==
    /\ call.op = "send_event" /\ ~call.done
    /\ \E sent \in BOOLEAN :
          LET r == send_event_resumed(active_connections, connection_metadata,
                                      call.awaiting[1], sent)
          IN  /\ active_connections' = r.ac
              /\ connection_metadata' = r.cm
              /\ call' = [call EXCEPT !.done = TRUE, !.success = r.ret,
                             !.awaiting = <<>>,
                             !.delivered = IF sent THEN {call.awaiting[1]} ELSE {},
                             !.raised = IF sent THEN {} ELSE {call.awaiting[1]}]
    /\ UNCHANGED <<sockets, storeVars>>

\* broadcast_event up to the first send_json, or to its return when no
\* client is to be sent to
BroadcastEvent ==
    /\ call.op = "none" \/ call.done
    /\ \E exclude \in SUBSET ClientIds :
          LET n == NextRecipient(KeyList(active_connections), exclude,
                                 active_connections)
          IN  call' = [NoCall EXCEPT !.op = "broadcast_event", !.exclude = exclude,
                                     !.start = Keys(active_connections),
                                     !.awaiting = n.awaiting, !.pending = n.pending,
                                     !.done = (n.awaiting = <<>>)]
    /\ UNCHANGED <<active_connections, connection_metadata, sockets, storeVars>>

\* broadcast_event, the send_json of the current client returned or raised:
\* the loop goes on to the next await or to the return
BroadcastResumed ==
    /\ call.op = "broadcast_event" /\ ~call.done
    /\ \E sent \in BOOLEAN :
          LET client_id == call.awaiting[1]
              r == send_event_resumed(active_connections, connection_metadata,
                                      client_id, sent)
              sent_to == IF r.ret THEN Append(call.sent_to, client_id)
                         ELSE call.sent_to
              n == NextRecipient(call.pending, call.exclude, r.ac)
          IN  /\ active_connections' = r.ac
              /\ connection_metadata' = r.cm
              /\ call' = [call EXCEPT !.sent_to = sent_to,
                             !.awaiting = n.awaiting, !.pending = n.pending,
                             !.done = (n.awaiting = <<>>),
                             !.ret = IF n.awaiting = <<>> THEN sent_to ELSE <<>>,
                             !.delivered = IF sent THEN @ \cup {client_id} ELSE @,
                             !.raised = IF sent THEN @ ELSE @ \cup {client_id}]
    /\ UNCHANGED <<sockets, storeVars>>

(***************************************************************************)
(* POST /prompts/versions (app/api/endpoints/prompts.py) running at the    *)
(* same time as PromptService.delete_template: each makes two store calls  *)
(* with an await at each, so the other may run between them.               *)
(***************************************************************************)
MaxVersions == 2

\* a template stored under its string id, the key get_template,
\* update_template and delete_template filter on
KeyedTemplateDoc(n) == [_id |-> <<"str", n>>, name |-> "dialogue"]

\* the id a client names a stored document by
IdString(doc) == IF doc._id[1] = "oid" THEN Str(doc._id) ELSE doc._id

\* get_template: find_one({"_id": template_id}) with the string it was given
get_template(tpls, template_id) == get_document("template", tpls, template_id)

\* create_version: insert_one(version.dict()); the store assigns the ObjectId
create_version(vers, oid, prompt_template_id) ==
    Append(vers, VersionDoc(oid, prompt_template_id))

\* an ObjectId no stored version has
FreshVersionOid(vers) ==
    CHOOSE n \in 1..(Len(vers) + 1) : \A k \in 1..Len(vers) : vers[k]._id # ObjectId(n)

NoCreate == [at |-> "idle", prompt_template_id |-> <<>>, status |-> 0]
NoDelete == [at |-> "idle", template_id |-> <<>>]

\* the endpoint up to its insert: get_template, 404 when it finds nothing
CreateVersionCheck ==
    /\ creating.at = "idle"
    /\ \E prompt_template_id \in IdStrings :
          creating' = IF get_template(templates, prompt_template_id) = 0
                      THEN [at |-> "idle", prompt_template_id |-> <<prompt_template_id>>,
                            status |-> 404]
                      ELSE [at |-> "checked", prompt_template_id |-> <<prompt_template_id>>,
                            status |-> 0]
    /\ UNCHANGED <<wsVars, evalVars, deleting, readers, reqVars, memVars, knowVars, pipeVars>>

\* the endpoint after its check: create_version inserts the version
CreateVersionInsert ==
    /\ creating.at = "checked"
    /\ Len(versions) < MaxVersions
    /\ versions' = create_version(versions, FreshVersionOid(versions),
                                  creating.prompt_template_id[1])
    /\ creating' = [creating EXCEPT !.at = "idle", !.status = 200]
    /\ UNCHANGED <<wsVars, evalVars, deleting, readers, conversations, templates, http,
                   memVars, knowVars, pipeVars>>

\* delete_template up to its second store call: delete_many on the versions
DeleteTemplateVersions ==
    /\ deleting.at = "idle"
    /\ \E template_id \in IdStrings :
          /\ versions' = delete_many(versions, template_id)
          /\ deleting' = [at |-> "versions deleted", template_id |-> <<template_id>>]
    /\ UNCHANGED <<wsVars, evalVars, creating, readers, conversations, templates, http,
                   memVars, knowVars, pipeVars>>

\* delete_template, its second store call: delete_one on the template
DeleteTemplateDocument ==
    /\ deleting.at = "versions deleted"
    /\ templates' = delete_one(templates, deleting.template_id[1]).coll
    /\ deleting' = [deleting EXCEPT !.at = "idle"]
    /\ UNCHANGED <<wsVars, evalVars, creating, readers, conversations, versions, http,
                   memVars, knowVars, pipeVars>>

(***************************************************************************)
(* POST /evaluation/rag-metrics (app/api/endpoints/evaluation.py).  Each   *)
(* request gets its own client from get_async_db (app/db/mongodb.py),      *)
(* closed when the request is over; rag_evaluator is one object for the    *)
(* process.  A handle is the number of the client it belongs to.           *)
(* evaluating[r].wrote notes the handle the request's insert went through  *)
(* and whether its client was closed by then.                              *)
(***************************************************************************)
MaxClients == 4
EvalRequests == {1, 2}

NoEvaluation == [at |-> "idle", db |-> 0, status |-> 0, wrote |-> <<>>]

\* get_async_db makes the client; evaluate_rag sets rag_evaluator.db when it
\* is None and calls evaluate_response, which awaits its metrics
BeginEvaluation(r) ==
    /\ evaluating[r].at = "idle"
    /\ clients.made < MaxClients
    /\ LET db == clients.made + 1
       IN  /\ clients' = [clients EXCEPT !.made = db]
           /\ rag_evaluator' = IF rag_evaluator.db = <<>>
                               THEN [rag_evaluator EXCEPT !.db = <<db>>]
                               ELSE rag_evaluator
           /\ evaluating' = [evaluating EXCEPT ![r] = [NoEvaluation EXCEPT
                                 !.at = "metrics", !.db = db]]
    /\ UNCHANGED <<wsVars, versionVars, readers, reqVars, memVars, knowVars, pipeVars>>

\* evaluate_response after its metrics: a raising metric makes the endpoint
\* answer 500; otherwise the result is appended and inserted through self.db
StoreEvaluation(r) ==
    /\ evaluating[r].at = "metrics"
    /\ \E computed \in BOOLEAN :
          IF computed
          THEN /\ rag_evaluator' = [rag_evaluator EXCEPT !.evaluation_results = @ + 1]
               /\ evaluating' = [evaluating EXCEPT ![r].at = "answered", ![r].status = 200,
                                    ![r].wrote = <<[db |-> rag_evaluator.db[1],
                                                    closed |-> rag_evaluator.db[1] \in
                                                                  clients.closed]>>]
          ELSE /\ evaluating' = [evaluating EXCEPT ![r].at = "answered", ![r].status = 500]
               /\ UNCHANGED rag_evaluator
    /\ UNCHANGED <<wsVars, versionVars, clients, readers, reqVars, memVars, knowVars,
                   pipeVars>>

\* the request is over: get_async_db resumes and closes its client
CloseClient(r) ==
    /\ evaluating[r].at = "answered"
    /\ clients' = [clients EXCEPT !.closed = @ \cup {evaluating[r].db}]
    /\ evaluating' = [evaluating EXCEPT ![r].at = "idle"]
    /\ UNCHANGED <<wsVars, versionVars, rag_evaluator, readers, reqVars, memVars,
                   knowVars, pipeVars>>

InitProcs ==
    /\ InitManager
    /\ creating = NoCreate /\ deleting = NoDelete
    /\ rag_evaluator = [db |-> <<>>, evaluation_results |-> 0]
    /\ clients = [made |-> 0, closed |-> {}]
    /\ evaluating = [r \in EvalRequests |-> NoEvaluation]

(***************************************************************************)
(* Specifications.                                                         *)
(***************************************************************************)
PipelineChunks ==
    <<ChunkDoc(1, "Thor", <<1, 0>>), ChunkDoc(2, "Iron Man", <<1, 2>>),
      ChunkDoc(3, "Thor", <<2, 1>>)>>

ChunkCollections ==
    UNION {[1..n -> {[name |-> c, vec |-> v] : c \in ChunkNames, v \in ChunkVectors}] :
              n \in 0..MaxChunks}

InitStore ==
    /\ memories = <<>>
    /\ embeddings = <<>>
    /\ nextOid = 1
    /\ lastOp = NoOp

InitIdle ==
    /\ pc = "idle"
    /\ state = InitialState(<<>>, "", <<>>, <<>>)
    /\ run = NoRun
    /\ result = NoResult

InitAux ==
    /\ InitProcs
    /\ readers = [r \in Readers |-> IdleReader]
    /\ conversations = <<>>
    /\ templates = <<>>
    /\ versions = <<>>
    /\ http = NoRequest

InitMemory == InitStore /\ InitIdle /\ InitAux /\ chunks = <<>> /\ kres = NoQuery

InitPipeline ==
    InitStore /\ InitIdle /\ InitAux /\ chunks = PipelineChunks /\ kres = NoQuery

\* the pipeline's stores with one prompt template and one version of it
InitPrompt ==
    /\ InitStore /\ InitIdle /\ InitProcs
    /\ chunks = PipelineChunks /\ kres = NoQuery
    /\ readers = [r \in Readers |-> IdleReader]
    /\ conversations = <<>> /\ http = NoRequest
    /\ templates = <<TemplateDoc(1)>>
    /\ versions = <<VersionDoc(1, Str(ObjectId(1)))>>

\* one template as create_template stores it, one stored under its string
\* id, and no version
InitVersions ==
    /\ InitStore /\ InitIdle /\ InitProcs
    /\ chunks = <<>> /\ kres = NoQuery
    /\ readers = [r \in Readers |-> IdleReader]
    /\ conversations = <<>> /\ http = NoRequest
    /\ templates = <<TemplateDoc(1), KeyedTemplateDoc(2)>>
    /\ versions = <<>>

\* two memories of one character, as two create_memory calls leave them
InitReaders ==
    /\ InitIdle /\ InitAux
    /\ chunks = <<>> /\ kres = NoQuery /\ lastOp = NoOp
    /\ memories = <<MemoryDoc(1, "character_thor", <<"hammer">>, "conversation", 5, <<>>),
                    MemoryDoc(2, "character_thor", <<"storm">>, "conversation", 5, <<>>)>>
    /\ embeddings = <<>>
    /\ nextOid = 3

\* the stores a sequence of create_memory calls can leave: the memories in
\* insertion order, each with its embedding record unless the embedding insert
\* failed
StoreShapes ==
    UNION {[1..n -> {[character_id |-> c, content |-> t, importance |-> i, emb |-> e] :
                        c \in Characters, t \in Contents, i \in Importances,
                        e \in {"stored", "missing"}}] :
              n \in 0..MaxMemories}

RECURSIVE EmbeddingsOf(_, _)
EmbeddingsOf(shape, k) ==
    IF k > Len(shape) THEN <<>>
    ELSE (IF shape[k].emb = "missing" THEN <<>>
          ELSE <<[memory_id |-> Str(ObjectId(k)), character_id |-> shape[k].character_id,
                  embedding |-> get_embedding(shape[k].content, shape[k].emb = "stored")]>>)
         \o EmbeddingsOf(shape, k + 1)

InitSearch ==
    /\ InitIdle /\ InitAux
    /\ chunks = <<>>
    /\ kres = NoQuery
    /\ lastOp = NoOp
    /\ \E shape \in StoreShapes :
          /\ memories = [k \in 1..Len(shape) |->
                            MemoryDoc(k, shape[k].character_id, shape[k].content,
                                      "conversation", shape[k].importance, <<>>)]
          /\ embeddings = EmbeddingsOf(shape, 1)
          /\ nextOid = Len(shape) + 1

InitKnowledge ==
    /\ InitStore
    /\ InitIdle /\ InitAux
    /\ kres = NoQuery
    /\ \E c \in ChunkCollections :
          chunks = [i \in 1..Len(c) |-> ChunkDoc(i, c[i].name, c[i].vec)]

NextMemory ==
    \/ CreateMemory
    \/ GetMemory
    \/ UpdateMemory
    \/ DeleteMemory

\* the stores as create_memory, store_chunk, create_template and create_version
\* leave them: one template with one version, a version whose template id
\* names no template, no conversation yet
InitRequests ==
    /\ InitIdle /\ InitProcs
    /\ readers = [r \in Readers |-> IdleReader]
    /\ kres = NoQuery /\ lastOp = NoOp /\ http = NoRequest
    /\ memories = <<MemoryDoc(1, "character_thor", <<"hammer">>, "conversation", 5, <<>>)>>
    /\ embeddings = <<[memory_id |-> Str(ObjectId(1)), character_id |-> "character_thor",
                       embedding |-> get_embedding(<<"hammer">>, TRUE)]>>
    /\ nextOid = 2
    /\ chunks = <<ChunkDoc(1, "Thor", <<1, 0>>)>>
    /\ templates = <<TemplateDoc(1)>>
    /\ versions = <<VersionDoc(1, Str(ObjectId(1))), VersionDoc(2, Str(ObjectId(2)))>>
    /\ conversations = <<>>

NextSearch ==
    \/ SearchMemories
    \/ GetCharacterMemories
    \/ RetrieveSimilar

NextReaders == \E r \in Readers : ReaderFind(r) \/ ReaderUpdate(r)

NextRequests ==
    \/ GetMemoryEndpoint
    \/ UpdateMemoryEndpoint
    \/ DeleteMemoryEndpoint
    \/ GetDocument
    \/ UpdateDocument
    \/ DeleteChunk
    \/ DeleteTemplate
    \/ GetConversationEndpoint
    \/ AddMessageEndpoint
    \/ GenerateDialogueEndpoint

NextDialogue ==
    \/ CreateConversation
    \/ AddMessage
    \/ GenerateDialogue

NextPipeline ==
    \/ StartRun
    \/ KnowledgeRetrieval
    \/ MemoryRetrieval
    \/ ContextAssembly
    \/ DialogueGeneration
    \/ MemoryIntegration
    \/ Extract

\* the pipeline with requests that carry a prompt_version_id
NextPrompt ==
    \/ StartVersionedRun
    \/ KnowledgeRetrieval
    \/ MemoryRetrieval
    \/ ContextAssembly
    \/ DialogueGeneration
    \/ MemoryIntegration
    \/ Extract

NextManager ==
    \/ \E s \in Sockets : Connect(s)
    \/ \E s \in Sockets : Welcome(s)
    \/ \E s \in Sockets : ReceiveEvent(s)
    \/ \E s \in Sockets : ReceiveClosed(s)
    \/ SendEvent
    \/ SendEventResumed
    \/ BroadcastEvent
    \/ BroadcastResumed

NextVersions ==
    \/ CreateVersionCheck
    \/ CreateVersionInsert
    \/ DeleteTemplateVersions
    \/ DeleteTemplateDocument

NextEvaluation ==
    \/ \E r \in EvalRequests : BeginEvaluation(r)
    \/ \E r \in EvalRequests : StoreEvaluation(r)
    \/ \E r \in EvalRequests : CloseClient(r)

SpecMemory == InitMemory /\ [][NextMemory]_vars

SpecSearch == (InitSearch \/ InitKnowledge) /\ [][NextSearch]_vars

SpecPipeline == InitPipeline /\ [][NextPipeline]_vars

SpecVersions == InitVersions /\ [][NextVersions]_vars

SpecEvaluation == InitMemory /\ [][NextEvaluation]_vars

SpecManager == InitMemory /\ [][NextManager]_vars

SpecPrompt == InitPrompt /\ [][NextPrompt]_vars

SpecReaders == InitReaders /\ [][NextReaders]_vars

SpecRequests == InitRequests /\ [][NextRequests]_vars

SpecDialogue == InitPipeline /\ [][NextPipeline \/ NextDialogue]_vars

\* The event loop runs an awaited node to its end: a started run is never
\* left waiting at a node or at END.  RunSteps is the step out of the node at
\* pc, seen on pc alone: along the graph's edge out of a node, from END to the
\* caller.  Every node action is enabled whenever pc is at its node, so under
\* SpecPipeline these are exactly the steps of the six run actions.
RunSteps ==
    /\ pc \in Nodes \cup {"END"}
    /\ pc' = IF pc = "END" THEN "returned" ELSE NextNode(pc)

FairPipeline == SpecPipeline /\ WF_pc(RunSteps)

Init == InitPipeline

Next ==
    NextMemory \/ NextSearch \/ NextPipeline \/ NextReaders \/ NextRequests
    \/ NextDialogue \/ NextManager \/ NextVersions \/ NextEvaluation

Spec == Init /\ [][Next]_vars

(***************************************************************************)
(* Properties of the pipeline (checked under SpecPipeline / FairPipeline). *)
(***************************************************************************)
StageOrder ==
    <<"knowledge_retrieval", "memory_retrieval", "context_assembly",
      "dialogue_generation", "memory_integration">>

MaxTransitions == Len(StageOrder)

Finished == pc \in {"END", "returned"}

AfterGeneration == pc \in {"memory_integration", "END", "returned"}

AfterAssembly == pc \in {"dialogue_generation", "memory_integration", "END", "returned"}

HasToken(text, token) == \E i \in 1..Len(text) : text[i] = token

RunCompleted ==
    /\ pc = "END"
    /\ state.completed
    /\ run.transitions <= MaxTransitions
    /\ \A node \in Nodes : HasToken(run.trace, node)

\* C1: every started run reaches END with completed = true after at most five
\* stage transitions and with every stage run, whichever stages failed.
C1_RunCompletes == (pc \in Nodes) ~> RunCompleted

\* a finished run in which three stages took their except path
C1_Witness == pc = "END" /\ state.completed /\ Cardinality(run.failed) >= 3

\* C2: the stages run once each, in the fixed order, the node at pc being the
\* one that follows the stages already run.
C2_LinearOrder ==
    /\ Len(run.trace) <= Len(StageOrder)
    /\ run.trace = SubSeq(StageOrder, 1, Len(run.trace))
    /\ pc \in Nodes => pc = StageOrder[Len(run.trace) + 1]
    /\ Finished => run.trace = StageOrder

C2_Witness == pc = "END" /\ run.trace = StageOrder /\ run.failed # {}

\* C3: the initial state has only its input fields populated; a terminal state
\* has completed = true and a populated response or a populated error.
C3_InitialAndTerminal ==
    /\ (pc = EntryPoint /\ run.trace = <<>>) =>
          /\ state.user_input # <<>> /\ state.character_id # ""
          /\ state.knowledge_context = <<>> /\ state.character_memories = <<>>
          /\ state.character_info = <<>> /\ state.conversation_history = <<>>
          /\ state.assembled_context = <<>> /\ state.response = <<>>
          /\ state.updated_memory = <<>> /\ ~state.completed /\ state.error = None
    /\ Finished => state.completed /\ (state.response # <<>> \/ state.error # None)

\* a terminal state whose response is empty: only the error is populated
C3_Witness == pc = "END" /\ state.response = <<>> /\ state.error # None

\* C4: when the provider call raises, the stage hands on the apology and the
\* recorded error, the run completes and writes no memory or embedding record.
C4_ProviderFailure ==
    (run.llm = "raise" /\ AfterGeneration) =>
        /\ state.response = <<Apology>>
        /\ state.error # None
        /\ Finished =>
              /\ state.completed
              /\ Len(memories) = run.memBefore
              /\ Len(embeddings) = run.embBefore

C4_Witness ==
    /\ pc = "END"
    /\ run.llm = "raise"
    /\ run.failed = {"dialogue_generation"}
    /\ state.response = <<Apology>>

\* C5 as stated: after a failed knowledge retrieval the assembled context is
\* non-empty and holds the sentinel, and the generation stage leaves a non-empty
\* response.
C5_AsStated ==
    ("knowledge_retrieval" \in run.failed) =>
        /\ AfterAssembly =>
              /\ state.assembled_context # <<>>
              /\ HasToken(state.assembled_context, NoKnowledgeSentinel)
        /\ AfterGeneration => state.response # <<>>

\* C5, amended: the response the stage leaves is non-empty unless the provider
\* itself returned an empty content; the response returned to the caller is
\* non-empty in every case.
C5_KnowledgeFailure ==
    ("knowledge_retrieval" \in run.failed) =>
        /\ AfterAssembly =>
              /\ state.assembled_context # <<>>
              /\ HasToken(state.assembled_context, NoKnowledgeSentinel)
        /\ (AfterGeneration /\ run.llm # "empty") => state.response # <<>>
        /\ pc = "returned" => result.response # <<>>

C5_Witness ==
    /\ pc = "END"
    /\ "knowledge_retrieval" \in run.failed
    /\ run.llm = "text"
    /\ state.knowledge_context = <<>>
    /\ state.character_info = Placeholder(state.character_id)
    /\ HasToken(state.assembled_context, NoKnowledgeSentinel)
    /\ state.response = <<"reply">>

\* C6: when the run ended with the error field set, the message content is the
\* one fixed apologetic sentence, whatever the error.
C6_FixedApology ==
    (pc = "returned" /\ result.error # None) =>
        generate_with_langgraph(result).content = <<Apology>>

(***************************************************************************)
(* Properties of the memory store (checked under SpecMemory).              *)
(***************************************************************************)
\* C7: every live memory has exactly one embedding record linked to its id.
C7_OneEmbeddingPerMemory ==
    \A i \in 1..Len(memories) :
        Cardinality(LinkedEmbeddings(embeddings, Str(memories[i]._id))) = 1

\* C8: after update_memory with new content on an existing memory (one that has
\* its embedding record), named by the id create_memory returned, exactly one
\* embedding record is linked to the id and it holds the new content's vector.
C8_UpdateRegeneratesEmbedding ==
    (/\ lastOp.op = "update_memory"
     /\ lastOp.content # <<>>
     /\ lastOp.existed
     /\ lastOp.linked = 1
     /\ ~lastOp.faulted) =>
        /\ Cardinality(LinkedEmbeddings(embeddings, lastOp.id)) = 1
        /\ \A e \in LinkedEmbeddings(embeddings, lastOp.id) :
              embeddings[e].embedding = get_embedding(lastOp.content, TRUE)

\* C9: after delete_memory on an existing memory, named by the id create_memory
\* returned, the memory and its embedding record are gone; no embedding record
\* refers to a memory that does not exist.
C9_DeleteCascades ==
    /\ (lastOp.op = "delete_memory" /\ lastOp.existed /\ ~lastOp.faulted) =>
          /\ ~Live(memories, lastOp.id)
          /\ LinkedEmbeddings(embeddings, lastOp.id) = {}
    /\ \A e \in 1..Len(embeddings) : Live(memories, embeddings[e].memory_id)

(***************************************************************************)
(* Properties of similarity search (checked under SpecSearch).             *)
(***************************************************************************)
ChunksSortedDesc(s) ==
    \A i \in 1..(Len(s) - 1) : ~ScoreLess(SortKey(s[i]), SortKey(s[i + 1]))

KnowledgeAnswered == kres.called /\ ~kres.faulted /\ ~kres.raised

ScanAnswered ==
    lastOp.op = "search_memories" /\ lastOp.rung = "manual" /\ ~lastOp.faulted

\* the length asked for: min(top_k, candidates), a negative top_k
\* read as a request for no result
Truncated(top_k, candidates) == Max(0, Min(top_k, candidates))

\* C10: a similarity search whose store reads all succeed returns its results
\* by descending score, exactly min(top_k, candidates in scope) of them and
\* never more than top_k.
C10_SortedAndTruncated ==
    /\ KnowledgeAnswered =>
          /\ ChunksSortedDesc(kres.ret)
          /\ Len(kres.ret) = Truncated(kres.top_k, kres.candidates)
    /\ ScanAnswered =>
          /\ IsSortedDesc(lastOp.ret)
          /\ Len(lastOp.ret) = Truncated(lastOp.limit, lastOp.candidates)

(***************************************************************************)
(* Properties of access tracking (checked under SpecSearch, whose stores   *)
(* start with every access_count at 0).                                    *)
(***************************************************************************)
\* access_count of the stored memory whose id string is s
AccessCountOf(mem, s) ==
    LET i == CHOOSE j \in 1..Len(mem) : Str(mem[j]._id) = s
    IN  mem[i].access_count

\* C11: every memory a read operation returned to its caller has had its
\* access_count incremented by exactly one.
C11_ReadsCountAccess ==
    (lastOp.op \in {"search_memories", "get_character_memories"} /\ ~lastOp.raised) =>
        \A i \in 1..Len(lastOp.ret) :
            /\ Live(memories, lastOp.ret[i].id)
            /\ AccessCountOf(memories, lastOp.ret[i].id) = 1

(***************************************************************************)
(* Properties of concurrent reads (checked under SpecReaders, whose        *)
(* memories start with access_count 0).                                    *)
(***************************************************************************)
\* the requests that read the memory with id string s and returned it
ReadersOf(s) == {r \in Readers : readers[r].ret # <<>> /\ readers[r].ret[1].id = s}

AllReadersDone == \A r \in Readers : readers[r].at = "done"

\* C12: once all concurrent requests have completed, each memory's access_count
\* has grown by the number of requests that read it, and no step lowers the
\* access_count of a memory.
C12_NoLostUpdates ==
    /\ [](AllReadersDone =>
            \A i \in 1..Len(memories) :
                memories[i].access_count = Cardinality(ReadersOf(Str(memories[i]._id))))
    /\ [][\A i \in 1..Len(memories) :
            memories'[i].access_count >= memories[i].access_count]_vars

\* all requests read the first memory, each having read the document before any
\* of them updated it, and the count has grown by their number
C12_Witness ==
    /\ AllReadersDone
    /\ \A r \in Readers :
          /\ readers[r].ret # <<>>
          /\ readers[r].ret[1].id = Str(ObjectId(1))
          /\ readers[r].ret[1].access_count = 0
    /\ memories[1].access_count = NumReaders

(***************************************************************************)
(* Properties of the fallback ladder (checked under SpecSearch).           *)
(***************************************************************************)
\* C13: search_memories and retrieve_similar never raise to their caller; a
\* call whose store queries all fail answers the empty list.
C13_NeverRaises ==
    /\ lastOp.op = "search_memories" => ~lastOp.raised
    /\ kres.called =>
          /\ ~kres.raised
          /\ kres.faulted => kres.ret = <<>>

(***************************************************************************)
(* Further properties of the pipeline (checked under SpecPipeline).        *)
(***************************************************************************)
AfterMemoryRetrieval == "memory_retrieval" \in {run.trace[i] : i \in 1..Len(run.trace)}

\* C14: when the character has no stored memory and the store answers the
\* stage's queries, memory_retrieval leaves an empty memory list and records
\* no error; the response returned to the caller is non-empty, and is the
\* generated text when nothing else failed.
C14_NoMemories ==
    (AfterMemoryRetrieval /\ run.zeroMem /\ run.storeOk) =>
        /\ state.character_memories = <<>>
        /\ "memory_retrieval" \notin run.failed
        /\ (pc = "context_assembly" /\ "knowledge_retrieval" \notin run.failed) =>
              state.error = None
        /\ pc = "returned" =>
              /\ result.response # <<>>
              /\ (run.failed = {} /\ run.llm = "text") => result.response = <<"reply">>

C14_Witness ==
    /\ pc = "returned"
    /\ run.zeroMem /\ run.storeOk
    /\ run.failed = {} /\ run.llm = "text"
    /\ state.character_memories = <<>>
    /\ result.error = None
    /\ result.response = <<"reply">>

\* a run whose only failure is the memory write of memory_integration
WriteFailed == run.failed = {"memory_integration"}

\* C15: when the memory write of memory_integration fails after a response
\* was generated and no earlier stage failed, the run ends completed with the
\* failure in the error field, and the caller is handed the generated text,
\* the same text as when the write succeeds.
C15_WriteFailureHarmless ==
    (pc = "returned" /\ WriteFailed) =>
        /\ state.completed
        /\ state.error # None
        /\ result.response = state.response

\* a request that names a document by id, passed validation and met no store
\* failure, for an id that no stored document has
NamesMissingDocument ==
    /\ http.endpoint \notin {"", "generate_dialogue"}
    /\ ~http.existed /\ ~http.invalid /\ ~http.fault

\* C16: every by-id endpoint answers a request for an id that is not in the
\* store with 404 (not found), never with 500.
C16_MissingIs404 == NamesMissingDocument => http.status = 404

\* C17: a request with a malformed conversation id, or with a body id other
\* than its path id, is answered 400 (bad request) and its handler makes no
\* store call.
C17_InvalidIs400 == http.invalid => http.status = 400 /\ http.store = 0

VersionsOf(template_id) ==
    {i \in 1..Len(versions) : versions[i].prompt_template_id = template_id}

\* C18: once delete_template(t) has returned, no version of t is stored and
\* template t is gone.
C18_TemplateAndVersionsGone ==
    (http.endpoint = "delete_template" /\ ~http.fault) =>
        /\ VersionsOf(http.id) = {}
        /\ ~Exists(templates, http.id)

IsPrefix(s, t) == Len(s) <= Len(t) /\ SubSeq(t, 1, Len(s)) = s

\* C19: whatever a pipeline run or a dialogue-service call does, every stored
\* conversation stays where it is, keeps the messages it had in their
\* positions, and only gains messages at the end.
C19_ConversationsGrow ==
    [][/\ Len(conversations') >= Len(conversations)
       /\ \A i \in 1..Len(conversations) :
             /\ conversations'[i]._id = conversations[i]._id
             /\ IsPrefix(conversations[i].messages, conversations'[i].messages)]_vars

\* a conversation that got a message from add_message and then the two
\* messages of a generate_dialogue exchange, a pipeline run having returned
C19_Witness ==
    /\ pc = "returned"
    /\ Len(conversations) = 1
    /\ conversations[1].messages =
          <<[role |-> "user", content |-> <<"hammer">>],
            [role |-> "assistant", content |-> <<"reply">>],
            [role |-> "user", content |-> <<"hammer">>]>>

\* the stage had to store the exchange: no error on entry, a response to store
MustStore == ~run.errorBefore /\ state.response # <<>>

MemoriesWritten == Len(memories) - run.memBefore

\* C20: memory_integration stores a memory record exactly when no earlier
\* stage recorded an error and the response is not empty; it then stores one
\* record, of the run's character, with source "conversation", importance 5,
\* the user input and the response as content and the conversation id in the
\* metadata (none when the store refuses the insert); when it skips it stores
\* nothing, and in every case the run ends completed.
C20_WritesWhenDue ==
    Finished =>
        /\ state.completed
        /\ ~MustStore => MemoriesWritten = 0 /\ Len(embeddings) = run.embBefore
        /\ (MustStore /\ run.refused = "insert_memory") => MemoriesWritten = 0
        /\ (MustStore /\ run.refused # "insert_memory") =>
              /\ MemoriesWritten = 1
              /\ LET m == memories[Len(memories)]
                 IN  /\ m.character_id = state.character_id
                     /\ m.source = "conversation"
                     /\ m.importance = 5
                     /\ m.content = <<"User asked:">> \o state.user_input
                                    \o <<"I responded:">> \o state.response
                     /\ m.metadata.conversation_id = state.conversation_id

\* a finished run of a conversation that stored its exchange
C20_Witness ==
    /\ pc = "returned" /\ MustStore /\ MemoriesWritten = 1
    /\ state.conversation_id = <<"conv1">>
    /\ memories[Len(memories)].metadata.conversation_id = <<"conv1">>

\* the same state with the error field the other way round, and a state
\* without its error field
Flip(st) == [st EXCEPT !.error = IF @ = None THEN <<"earlier error">> ELSE None]

SansError(st) == [st EXCEPT !.error = None]

\* the stage about to run does the same to the state and to the store
\* whether or not the error field is set
ErrorBlind(node) ==
    pc = node =>
        CASE node = "knowledge_retrieval" ->
                \A env \in KnowledgeEnvs :
                    SansError(knowledge_retrieval(Flip(state), chunks, env))
                        = SansError(knowledge_retrieval(state, chunks, env))
          [] node = "memory_retrieval" ->
                \A env \in MemoryEnvs :
                    LET a == memory_retrieval(Flip(state), memories, embeddings, env)
                        b == memory_retrieval(state, memories, embeddings, env)
                    IN  SansError(a.st) = SansError(b.st) /\ a.mem = b.mem
          [] node = "context_assembly" ->
                SansError(context_assembly(Flip(state)))
                    = SansError(context_assembly(state))
          [] node = "dialogue_generation" ->
                \A llm \in {"raise", "text", "empty"} :
                    SansError(dialogue_generation(Flip(state), llm))
                        = SansError(dialogue_generation(state, llm))
          [] node = "memory_integration" ->
                \A env \in IntegrationEnvs :
                    LET a == memory_integration(Flip(state), memories, embeddings,
                                                nextOid, env)
                        b == memory_integration(state, memories, embeddings,
                                                nextOid, env)
                    IN  /\ SansError(a.st) = SansError(b.st)
                        /\ a.mem = b.mem /\ a.emb = b.emb

\* C21 as stated: none of the five stages depends on the error field; only
\* the final extraction reads it.
C21_AsStated == \A node \in Nodes : ErrorBlind(node)

\* C21: the four stages before memory_integration do not depend on the error
\* field; memory_integration reads it and stores nothing when it is set; the
\* final extraction reads it to choose between the apology and the response.
C21_ErrorReaders ==
    /\ \A node \in Nodes \ {"memory_integration"} : ErrorBlind(node)
    /\ (pc = "memory_integration" /\ state.error # None) =>
          \A env \in IntegrationEnvs :
              LET r == memory_integration(state, memories, embeddings, nextOid, env)
              IN  r.mem = memories /\ r.emb = embeddings /\ r.st.completed
    /\ pc = "returned" =>
          result.response = IF state.error # None
                            THEN <<Apology, " Error: ">> \o state.error
                            ELSE state.response

\* dialogue_generation about to run with an error recorded by an earlier stage
C21_Witness ==
    /\ pc = "dialogue_generation" /\ state.error # None
    /\ dialogue_generation(state, "text").response = <<"reply">>

(***************************************************************************)
(* C22.  The fallback ladder of search_memories.                           *)
(***************************************************************************)
\* the call asked for at least one memory of a character that has memories
SearchCouldAnswer ==
    /\ lastOp.op = "search_memories" /\ lastOp.limit > 0
    /\ \E k \in 1..Len(memories) : memories[k].character_id = lastOp.character_id

\* C22: a rung of search_memories that yields no results falls through to the
\* next rung: no search ends at the manual similarity scan with an empty list
\* while the character has memories the later rungs would return.
C22_EmptyRungFallsThrough ==
    (SearchCouldAnswer /\ lastOp.rung = "manual") => lastOp.ret # <<>>

(***************************************************************************)
(* C23.  The fallback of the memory_retrieval stage.                       *)
(***************************************************************************)
\* memory_retrieval was the last node to run
JustRetrieved ==
    run.trace # <<>> /\ run.trace[Len(run.trace)] = "memory_retrieval"

\* ms are the character's highest-importance memories: up to MemoryLimit of
\* them, each a different memory of the character, by descending importance,
\* and no memory left out outranks one that is listed
HighestImportance(ms, mem, character_id) ==
    LET own == {k \in 1..Len(mem) : mem[k].character_id = character_id}
        listed == {k \in own : \E i \in 1..Len(ms) : ms[i].id = Str(mem[k]._id)}
    IN  /\ Len(ms) = Min(MemoryLimit, Cardinality(own))
        /\ Cardinality(listed) = Len(ms)
        /\ \A i \in 1..Len(ms) : \E k \in own : ms[i] = AsDict(mem[k])
        /\ \A i \in 1..(Len(ms) - 1) : ms[i].importance >= ms[i + 1].importance
        /\ \A k \in own \ listed, j \in listed : mem[k].importance <= mem[j].importance

\* C23: after memory_retrieval the pipeline is at context_assembly; when the
\* similarity search returned no result the stage's list is the character's
\* highest-importance memories, and when the search or the highest-importance
\* query raised the list is empty.
C23_StageFallsBack ==
    JustRetrieved =>
        /\ pc = "context_assembly"
        /\ run.path = "fallback" =>
              HighestImportance(state.character_memories, memories, state.character_id)
        /\ run.path \in {"search raised", "fallback raised"} =>
              state.character_memories = <<>>

\* the search found nothing and the highest-importance query supplied a memory
C23_Witness ==
    /\ JustRetrieved /\ pc = "context_assembly"
    /\ run.path = "fallback"
    /\ state.character_memories # <<>>

(***************************************************************************)
(* C24.  The prompt template of a dialogue (checked under SpecPrompt).     *)
(***************************************************************************)
\* dialogue_generation ran in the current request
AfterDialogueGeneration ==
    "dialogue_generation" \in {run.trace[i] : i \in 1..Len(run.trace)}

\* C24: when the request carries a prompt_version_id that names a stored
\* version, the template the dialogue_generation stage formats is the
\* template of that version.
C24_ExplicitVersionFirst ==
    AfterDialogueGeneration =>
        \A k \in 1..Len(versions) :
            state.prompt_version_id = <<Str(versions[k]._id)>> =>
                run.template = versions[k].template

(***************************************************************************)
(* Properties of the WebSocketManager (checked under SpecManager).         *)
(***************************************************************************)
\* C25: in every state the key sets of active_connections and
\* connection_metadata are equal, and no key occurs twice in either map.
C25_SameKeys ==
    /\ Keys(active_connections) = Keys(connection_metadata)
    /\ Cardinality(Keys(active_connections)) = Len(active_connections)
    /\ Cardinality(Keys(connection_metadata)) = Len(connection_metadata)

\* two clients are registered, one was removed after its send raised
C25_Witness ==
    /\ Cardinality(Keys(active_connections)) = 2
    /\ call.done /\ call.raised # {}
    /\ \E s \in Sockets : sockets[s].at = "closed"

\* C26: a disconnect only removes the registry entry of the socket that
\* closed: when the listener of socket s ends, the entries of the other
\* sockets stay in active_connections.
C26_OnlyClosedSocketRemoved ==
    [][\A s \in Sockets :
          (sockets[s].at = "listening" /\ sockets'[s].at = "closed") =>
              \A i \in 1..Len(active_connections) :
                  active_connections[i].websocket # s =>
                      \E j \in 1..Len(active_connections') :
                          active_connections'[j] = active_connections[i]]_vars

\* a broadcast_event call that returned
BroadcastReturned == call.op = "broadcast_event" /\ call.done

Elements(seq) == {seq[i] : i \in 1..Len(seq)}

\* C27: broadcast_event returns exactly the non-excluded clients registered
\* when the broadcast began whose send succeeded, each once; a client whose
\* send raised is not in the list, and is in neither map when its send_event
\* returns; send_event to an unregistered id returns False and changes nothing.
C27_BroadcastReport ==
    /\ [](BroadcastReturned =>
             /\ Elements(call.ret) = (call.start \ call.exclude) \cap call.delivered
             /\ Cardinality(Elements(call.ret)) = Len(call.ret)
             /\ Elements(call.ret) \cap call.raised = {})
    /\ [][\A c \in AllIds :
             /\ (c \in call'.raised /\ c \notin call.raised) =>
                   /\ c \notin Keys(active_connections')
                   /\ c \notin Keys(connection_metadata')
             /\ (call'.op = "send_event" /\ call' # call
                 /\ (call.op # "send_event" \/ call.done)
                 /\ call'.client_id = <<c>>
                 /\ c \notin Keys(active_connections)) =>
                   /\ call'.done /\ ~call'.success
                   /\ active_connections' = active_connections
                   /\ connection_metadata' = connection_metadata]_vars

\* a broadcast over two registered clients returned: one send succeeded, the
\* other raised
C27_Witness ==
    /\ BroadcastReturned
    /\ Cardinality(call.start) = 2 /\ call.exclude = {}
    /\ Len(call.ret) = 1 /\ Cardinality(call.raised) = 1

(***************************************************************************)
(* C28.  The order of the two messages of an exchange (SpecRequests).      *)
(***************************************************************************)
\* the messages conversation k held before the step; none when the step
\* created it
MessagesBefore(k) ==
    IF k <= Len(conversations) THEN conversations[k].messages ELSE <<>>

\* C28: a generate_dialogue call that appends the two messages of an exchange
\* appends the user's message first and the assistant's reply after it.
C28_UserThenAssistant ==
    [][\A k \in 1..Len(conversations') :
          LET before == MessagesBefore(k)
              after == conversations'[k].messages
          IN  Len(after) = Len(before) + 2 =>
                  /\ after[Len(before) + 1].role = "user"
                  /\ after[Len(before) + 2].role = "assistant"]_vars

C30_NoWriteThroughClosedHandle ==
    \A r \in EvalRequests :
        evaluating[r].wrote # <<>> => ~evaluating[r].wrote[1].closed

====
